---- MODULE Spec2Model ----
(***************************************************************************)
(* Provider-to-account resolution of simpleidentity: the authentication    *)
(* orchestrator (authService.Authenticate), the provider registry          *)
(* (defaultFactory), the identity providers and the DynamoDB accounts      *)
(* repository (ResolveIDByProvider / Create) over a table with the         *)
(* composite primary key (PK, SK).                                         *)
(*                                                                         *)
(* Every call runs on its own goroutine.  A call is a record in `call`     *)
(* whose field pc is the position of the goroutine; each action is the     *)
(* code between two suspension points (a store request, the provider call, *)
(* the return to the caller).                                              *)
(*                                                                         *)
(* The module also holds the public-key cache of the Google and Apple      *)
(* providers (simpleCacheManager), used by one caller and by concurrent    *)
(* goroutines, the token verification that refills it from the certs       *)
(* endpoint (fetchPublicKeyByID), and the registry used on its own.        *)
(* Around the core it holds the provider objects with their cache          *)
(* managers (NewGoogleProvider, NewAppleProvider), the cancellation of a   *)
(* call's context, and the shutdown manager with its hooks.                *)
(***************************************************************************)
EXTENDS Integers, Sequences, FiniteSets, TLC

(***************************************************************************)
(* Bounds                                                                  *)
(***************************************************************************)
\* number of calls (goroutines) in flight at the same time
NumProcs == 2
\* number of identifiers the id generator issues
MaxIDs == 2
\* last instant the wall clock shows, in ticks
MaxTime == 2
\* calls made on the registry directly
MaxOps == 4
\* providers the constructors make
MaxProviders == 2
\* hooks added to the shutdown manager
MaxHooks == 3

\* clock ticks per second; RFC3339 keeps whole seconds only
TicksPerSecond == 2
\* the instants time.Now() can return
Times == 0..MaxTime

Procs == 1..NumProcs

(***************************************************************************)
(* Domain values                                                           *)
(***************************************************************************)
ProviderTypeGuest == "guest"
ProviderTypeGoogle == "google"
ProviderTypeApple == "apple"
ProviderTypes == {ProviderTypeGuest, ProviderTypeGoogle, ProviderTypeApple}

EmptyAccountID == ""

\* provider implementations that can be registered
GuestProvider == "GuestProvider"
GoogleProvider == "googleProvider"
AppleProvider == "appleProvider"
Providers == {GuestProvider, GoogleProvider, AppleProvider}

\* subjects the upstream identity providers assert in a verified token
Subjects == {"s1"}
\* the subject the guest provider returns
GuestID == "guest-id"
\* external ids handed to the repository
ExternalIDs == Subjects \cup {GuestID}

GoogleAuthCodeFieldName == "token"
AppleIdentityTokenFieldName == "identityToken"
AppleAuthorizationCodeFieldName == "authorizationCode"
AppleUserIDFieldName == "userID"
AppleNonceFieldName == "nonce"
AppleEmailFieldName == "email"

\* the AuthData maps callers send
NoData == [f \in {} |-> ""]
GuestData == [id |-> "device-123"]
GoogleData == [token |-> "code"]
AppleData(u) ==
  [identityToken |-> "jwt", authorizationCode |-> "code", userID |-> u,
   nonce |-> "n", email |-> ""]
\* per provider type, the maps that take its provider down different paths
AuthDatas(t) ==
  IF t = ProviderTypeGuest THEN {GuestData}
  ELSE IF t = ProviderTypeGoogle THEN {NoData, GoogleData}
  ELSE {NoData, AppleData("s1"), AppleData("s2")}

\* the provider registrations made at wiring time
Registrations ==
  {<<ProviderTypeGuest, GuestProvider>>, <<ProviderTypeGoogle, GoogleProvider>>,
   <<ProviderTypeApple, AppleProvider>>}
\* the (providerType, providerID) pairs of direct repository calls
RepoPairs == {<<ProviderTypeGuest, GuestID>>, <<ProviderTypeGoogle, "s1">>}

(***************************************************************************)
(* Errors.  An error is its Unwrap chain, outermost first; nil is the      *)
(* empty chain.  A link is [id, msg]: id names the error value (errors.Is  *)
(* compares values, not texts), "" for a value made by fmt.Errorf or       *)
(* errors.New on the spot.                                                 *)
(***************************************************************************)
nil == << >>
Sentinel(name, msg) == << [id |-> name, msg |-> msg] >>
ErrorsNew(msg) == << [id |-> "", msg |-> msg] >>
\* fmt.Errorf(msg + ": %w", err)
Wrap(msg, err) == << [id |-> "", msg |-> msg] >> \o err
\* errors.Is(err, target) for a sentinel target
ErrorsIs(err, target) ==
  \E i \in 1..Len(err) : err[i].id # "" /\ err[i].id = target[1].id

ErrProviderNotFound == Sentinel("ErrProviderNotFound", "provider not found")
ErrAccountNotFound == Sentinel("ErrAccountNotFound", "account not found")
ErrProviderIDOrAccountAlreadyExists ==
  Sentinel("ErrProviderIDOrAccountAlreadyExists",
           "provider ID or account already exists")
ErrMissingRequiredProviderAuthData ==
  Sentinel("ErrMissingRequiredProviderAuthData",
           "missing required provider authentication data")
errTransactionErrorConditionFailed ==
  Sentinel("errTransactionErrorConditionFailed",
           "transaction error ConditionalCheckFailed")

(***************************************************************************)
(* Table keys and records                                                  *)
(***************************************************************************)
AccountIdentitySKName == "IDENTITY"
\* fmt.Sprintf("ACNT#%s", accountID)
AccountProviderPK(accountID) == "ACNT#" \o accountID
\* fmt.Sprintf("PVDR#%s#%s", providerType, providerID)
AccountProviderSK(providerType, providerID) ==
  "PVDR#" \o providerType \o "#" \o providerID

\* time.Now().UTC().Format(time.RFC3339): the whole second of the instant
FormatRFC3339(t) == t \div TicksPerSecond

DDBAccountProviderRecordData(accountID, providerType, providerID, date) ==
  [AccountID |-> accountID, ProviderType |-> providerType,
   ProviderID |-> providerID, DateCreated |-> date]

DDBAccountProviderRecord(pk, sk, data) ==
  [PK |-> pk, SK |-> sk, AccountID |-> data.AccountID,
   ProviderType |-> data.ProviderType, ProviderID |-> data.ProviderID,
   DateCreated |-> data.DateCreated]

identityRecord(data) ==
  DDBAccountProviderRecord(
    AccountProviderSK(data.ProviderType, data.ProviderID),
    AccountIdentitySKName, data)

accountRecord(data) ==
  DDBAccountProviderRecord(
    AccountProviderPK(data.AccountID),
    AccountProviderSK(data.ProviderType, data.ProviderID), data)

(***************************************************************************)
(* The store: a table of items with primary key (PK, SK)                   *)
(***************************************************************************)
\* Query with the key condition PK = pk AND SK = sk
Query(tbl, pk, sk) == {it \in tbl : it.PK = pk /\ it.SK = sk}

\* variant: Puts without a condition expression
AttributeNotExistsCondAbsent(tbl, item) == TRUE

\* attribute_not_exists(PK) AND attribute_not_exists(SK), evaluated on the
\* stored item that has the key of the item being put
AttributeNotExistsCond(tbl, item) == Query(tbl, item.PK, item.SK) = {}

\* a Put replaces the stored item of the same key
PutItem(tbl, item) ==
  (tbl \ Query(tbl, item.PK, item.SK)) \cup {item}

RECURSIVE PutAll(_, _)
PutAll(tbl, puts) ==
  IF puts = << >> THEN tbl ELSE PutAll(PutItem(tbl, Head(puts)), Tail(puts))

\* variant: only the account record's Put carries the condition expression
CancellationReasonsAccountOnly(tbl, puts) ==
  [i \in 1..Len(puts) |->
     IF i = 1 \/ AttributeNotExistsCond(tbl, puts[i]) THEN "None"
     ELSE "ConditionalCheckFailed"]

\* one cancellation reason per transact item
CancellationReasons(tbl, puts) ==
  [i \in 1..Len(puts) |->
     IF AttributeNotExistsCond(tbl, puts[i]) THEN "None"
     ELSE "ConditionalCheckFailed"]

\* TransactWriteItems: all puts or none.  reasons = << >> when it committed.
TransactWriteItems(tbl, puts) ==
  LET reasons == CancellationReasons(tbl, puts) IN
  IF \A i \in 1..Len(puts) : reasons[i] = "None"
  THEN [table |-> PutAll(tbl, puts), reasons |-> << >>]
  ELSE [table |-> tbl, reasons |-> reasons]

(***************************************************************************)
(* Repository helpers                                                      *)
(***************************************************************************)
RECURSIVE FirstReason(_, _)
\* index of the first cancellation reason whose code is not "None", 0 if none
FirstReason(reasons, i) ==
  IF i > Len(reasons) THEN 0
  ELSE IF reasons[i] # "None" THEN i
  ELSE FirstReason(reasons, i + 1)

\* enrichErrorWithOperationContext for a TransactionCanceledException
enrichErrorWithOperationContext(reasons) ==
  LET i == FirstReason(reasons, 1) IN
  IF i = 0 THEN ErrorsNew("TransactionCanceledException")
  ELSE Wrap("operation, index, reason",
            IF reasons[i] = "ConditionalCheckFailed"
            THEN errTransactionErrorConditionFailed
            ELSE ErrorsNew("transaction error " \o reasons[i]))

\* variant: Create does not map the failed condition to the domain sentinel
CreateErrorUnmapped(reasons) ==
  Wrap("failed to execute transaction when creating account",
       enrichErrorWithOperationContext(reasons))

\* the error Create returns for a cancelled transaction
CreateError(reasons) ==
  LET tErr == enrichErrorWithOperationContext(reasons) IN
  Wrap("failed to execute transaction when creating account",
       IF ErrorsIs(tErr, errTransactionErrorConditionFailed)
       THEN ErrProviderIDOrAccountAlreadyExists
       ELSE tErr)

\* variant: ResolveIDByProvider reports several matches as no account
ResolveResultManyAsNone(items) ==
  IF items = {} \/ Cardinality(items) > 1
  THEN [accountID |-> EmptyAccountID, err |-> ErrAccountNotFound]
  ELSE [accountID |-> (CHOOSE it \in items : TRUE).AccountID, err |-> nil]

\* variant: ResolveIDByProvider picks one of several matches
ResolveResultPicksOne(items) ==
  IF items = {} THEN [accountID |-> EmptyAccountID, err |-> ErrAccountNotFound]
  ELSE [accountID |-> (CHOOSE it \in items : TRUE).AccountID, err |-> nil]

\* variant: ResolveIDByProvider decodes the wrong attribute
ResolveResultProviderID(items) ==
  IF items = {} THEN [accountID |-> EmptyAccountID, err |-> ErrAccountNotFound]
  ELSE [accountID |-> (CHOOSE it \in items : TRUE).ProviderID, err |-> nil]

\* the result of ResolveIDByProvider for the items a Query returned
ResolveResult(items) ==
  IF items = {} THEN [accountID |-> EmptyAccountID, err |-> ErrAccountNotFound]
  ELSE IF Cardinality(items) > 1
  THEN [accountID |-> EmptyAccountID,
        err |-> ErrorsNew("unexpected multiple accounts found")]
  ELSE [accountID |-> (CHOOSE it \in items : TRUE).AccountID, err |-> nil]

(***************************************************************************)
(* Identity providers.  `up` is what the provider's backend does for this  *)
(* call: whether the code exchange and the token verification succeed and  *)
(* the subject of the verified token.                                      *)
(***************************************************************************)
Upstreams == [exchange : BOOLEAN, verify : BOOLEAN, sub : Subjects]
\* the guest provider has no backend
UpstreamsOf(t) ==
  IF t = ProviderTypeGuest
  THEN {up \in Upstreams : up.exchange /\ up.verify}
  ELSE Upstreams

Has(data, field) == field \in DOMAIN data

guestAuthenticate(data, up) == [id |-> GuestID, err |-> nil]

googleAuthenticate(data, up) ==
  IF ~Has(data, GoogleAuthCodeFieldName)
  THEN [id |-> "", err |-> ErrMissingRequiredProviderAuthData]
  ELSE IF ~up.exchange
  THEN [id |-> "", err |-> Wrap("failed to exchange auth code",
                                ErrorsNew("token exchange failed"))]
  ELSE IF ~up.verify
  THEN [id |-> "", err |-> Wrap("failed to verify id token",
                                ErrorsNew("invalid token"))]
  ELSE [id |-> up.sub, err |-> nil]

appleAuthenticate(data, up) ==
  IF ~Has(data, AppleIdentityTokenFieldName)
  THEN [id |-> "", err |-> ErrorsNew("missing required field: identityToken")]
  ELSE IF ~Has(data, AppleAuthorizationCodeFieldName)
  THEN [id |-> "", err |-> ErrorsNew("missing required field: authorizationCode")]
  ELSE IF ~Has(data, AppleUserIDFieldName)
  THEN [id |-> "", err |-> ErrorsNew("missing required field: userID")]
  ELSE IF ~Has(data, AppleNonceFieldName)
  THEN [id |-> "", err |-> ErrorsNew("missing required field: nonce")]
  ELSE IF ~Has(data, AppleEmailFieldName)
  THEN [id |-> "", err |-> ErrorsNew("missing required field: email")]
  ELSE IF ~up.exchange
  THEN [id |-> "", err |-> Wrap("failed to exchange auth code",
                                ErrorsNew("failed to exchange auth code"))]
  ELSE IF ~up.verify
  THEN [id |-> "", err |-> Wrap("failed to verify id token",
                                ErrorsNew("invalid token"))]
  ELSE IF data[AppleUserIDFieldName] # up.sub
  THEN [id |-> "", err |-> ErrorsNew("userID mismatch")]
  ELSE [id |-> up.sub, err |-> nil]

\* provider.Authenticate(ctx, data), dispatched on the registered provider
providerAuthenticate(provider, data, up) ==
  IF provider = GuestProvider THEN guestAuthenticate(data, up)
  ELSE IF provider = GoogleProvider THEN googleAuthenticate(data, up)
  ELSE appleAuthenticate(data, up)

\* ksuid.New().String(): the n-th identifier, never issued before
GenerateID(n) == "acct-" \o ToString(n)

(***************************************************************************)
(* State                                                                   *)
(***************************************************************************)
VARIABLES
  registry,   \* defaultFactory.registry: provider type -> provider
  table,      \* the DynamoDB table: a set of items
  nextID,     \* number of identifiers the id generator has issued, plus one
  call,       \* call[p]: the goroutine of the call in slot p; perr is the
              \* error its provider.Authenticate returned and log the
              \* collaborators it has invoked, with their outcomes
  created,    \* created[k]: the AccountIDs that Create returned with a nil
              \* error for the pair with identity key k, in order
  okReturned, \* the identity keys of the pairs for which an Authenticate
              \* has returned successfully
  factoryLog, \* the calls of Add, Get and Remove made on the registry
              \* directly, in order, each with what it returned
  now,        \* the wall clock, in ticks
  cache,      \* simpleCacheManager.cache: key id -> cacheEntry
  added,      \* added[id]: the key and the expiry instant (in ticks) that
              \* the most recent Add of id was given, and whether no Reset
              \* has followed it
  got,        \* the key id and the result of the most recent Get
  access,     \* access[p]: what goroutine p is doing to the cache's map
  look,       \* look[p]: the token verification that goroutine p runs
              \* inside provider.Authenticate, with its fetchPublicKeyByID
  owner,      \* the type of the provider that owns the cache
  managers,   \* the cache managers NewSimpleCacheManager has made
  instances,  \* the providers the constructors have made
  used,       \* the provider whose cache was written last, 0 before any write
  manager,    \* the shutdown Manager: its hooks and the position of shutdown
  history,    \* the results successful Authenticate calls have returned, by pair
  health      \* the health Checker: its checks and the Check call in progress

serviceVars ==
  <<registry, table, nextID, call, created, okReturned, factoryLog>>

cacheVars == <<now, cache, added, got, access, look, owner>>

\* the objects of the hosting process around the core
\* what the callers have observed
observedVars == <<history, health>>

hostVars == <<managers, instances, used, manager, observedVars>>

vars ==
  <<registry, table, nextID, call, created, okReturned, factoryLog, cacheVars,
    hostVars>>

\* a nil *rsa.PublicKey
NoKey == ""
PublicKeys == {"pk1", "pk2"}
KeyIDs == {"kid1", "kid2"}

\* the zero cacheEntry
NoEntry == [pubKey |-> NoKey, expiresAt |-> 0]
NoAdd == [pubKey |-> NoKey, expiresAt |-> 0, live |-> FALSE]

\* no Get has been the last operation on the cache
NoGot == [id |-> "", key |-> NoKey]

\* a goroutine that is not inside a method of the cache
NoAccess ==
  [op |-> "", id |-> "", pubKey |-> NoKey, expiresAt |-> 0, at |-> "out"]

\* a goroutine that runs no fetchPublicKeyByID
\* no identity token
NoToken ==
  [kid |-> "", signer |-> NoKey, iss |-> "", aud |-> "", nonce |-> "",
   email |-> "", sub |-> ""]

IdleLookup ==
  [pc |-> "idle", cancelled |-> FALSE,
   data |-> NoData, token |-> NoToken, exchanges |-> 0,
   kid |-> "", keys |-> {}, jwks |-> << >>, fetches |-> 0,
   key |-> NoKey, err |-> nil, out |-> [id |-> "", err |-> nil]]

IdleCall ==
  [op |-> "", pc |-> "idle", ptype |-> "",
   id |-> "", accountID |-> EmptyAccountID,
   out |-> FALSE, isNew |-> FALSE, err |-> nil, perr |-> nil, log |-> << >>]

\* no successful Authenticate has returned for a pair
NoResults == [news |-> 0, ids |-> {}]

\* NewManager: no hooks; Wait has not seen a signal.  A hook is "added",
\* then "spawned" (its goroutine exists), "running", and "done" when it
\* returned nil, or "erred" when it returned an error and then "failed" when
\* its goroutine has sent the error
NewManager == [hooks |-> << >>, pc |-> "wait", i |-> 0, code |-> 0]

\* health.Status
StatusHealthy == "healthy"
StatusUnhealthy == "unhealthy"

\* NewChecker: no checks; no Check call is in progress.  Of a Check call the
\* state holds its copy of the checks, its goroutines (one per copied check:
\* "ready", then "mark" when the check failed, "store", "done") and its
\* response
NewChecker ==
  [checks |-> [n \in {} |-> ""], pc |-> "idle",
   snapshot |-> [n \in {} |-> ""],
   g |-> [n \in {} |-> [pc |-> "ready", err |-> << >>]],
   response |-> [status |-> "", checks |-> [n \in {} |-> ""]]]

\* the map after m[k] = v
MapSet(m, k, v) == [x \in DOMAIN m \cup {k} |-> IF x = k THEN v ELSE m[x]]
\* the map after delete(m, k)
MapDelete(m, k) == [x \in DOMAIN m \ {k} |-> m[x]]
\* m[k], or d when k is not a key of m
MapGet(m, k, d) == IF k \in DOMAIN m THEN m[k] ELSE d

Init ==
  /\ registry = [t \in {} |-> ""]
  /\ table = {}
  /\ nextID = 1
  /\ call = [p \in Procs |-> IdleCall]
  /\ created = [k \in {} |-> << >>]
  /\ okReturned = {}
  /\ factoryLog = << >>
  /\ now = 0
  /\ cache = [id \in {} |-> NoEntry]
  /\ added = [id \in {} |-> NoAdd]
  /\ got = NoGot
  /\ access = [p \in Procs |-> NoAccess]
  /\ look = [p \in Procs |-> IdleLookup]
  /\ owner = ""
  /\ managers = << >>
  /\ instances = << >>
  /\ used = 0
  /\ manager = NewManager
  /\ history = [k \in {} |-> NoResults]
  /\ health = NewChecker

\* a new call takes the lowest free slot
CanStart(p) ==
  /\ call[p].pc = "idle"
  /\ \A q \in Procs : q < p => call[q].pc # "idle"

(***************************************************************************)
(* Provider registry (defaultFactory)                                      *)
(***************************************************************************)
\* variant: Get falls back to the guest provider for an unknown type
FactoryGetFallback(reg, providerType) ==
  IF providerType \in DOMAIN reg
  THEN [provider |-> reg[providerType], err |-> nil]
  ELSE [provider |-> GuestProvider, err |-> nil]

\* defaultFactory.Get
FactoryGet(reg, providerType) ==
  IF providerType \in DOMAIN reg
  THEN [provider |-> reg[providerType], err |-> nil]
  ELSE [provider |-> "", err |-> ErrProviderNotFound]

\* registration is part of wiring: it happens before the service is used
Wiring ==
  /\ \A p \in Procs : call[p].pc = "idle"
  /\ table = {} /\ nextID = 1 /\ okReturned = {}

FactoryAdd(providerType, provider) ==
  /\ Wiring
  /\ registry' = MapSet(registry, providerType, provider)
  /\ registry' # registry
  /\ UNCHANGED <<table, nextID, call, created, okReturned, factoryLog, cacheVars,
                 hostVars>>

FactoryRemove(providerType) ==
  /\ Wiring
  /\ registry' = MapDelete(registry, providerType)
  /\ registry' # registry
  /\ UNCHANGED <<table, nextID, call, created, okReturned, factoryLog, cacheVars,
                 hostVars>>

\* the registry used directly: any provider under any type, in any order
FactoryCall(op, providerType, provider, err) ==
  [op |-> op, ptype |-> providerType, provider |-> provider, err |-> err]

\* an Add that keeps the provider already registered under the type
RegistryAddKeepsFirst(providerType, provider) ==
  /\ Len(factoryLog) < MaxOps
  /\ registry' = IF providerType \in DOMAIN registry THEN registry
                 ELSE MapSet(registry, providerType, provider)
  /\ factoryLog' = Append(factoryLog,
                          FactoryCall("Add", providerType, provider, nil))
  /\ UNCHANGED <<table, nextID, call, created, okReturned, cacheVars, hostVars>>

RegistryAdd(providerType, provider) ==
  /\ Len(factoryLog) < MaxOps
  /\ registry' = MapSet(registry, providerType, provider)
  /\ factoryLog' = Append(factoryLog,
                          FactoryCall("Add", providerType, provider, nil))
  /\ UNCHANGED <<table, nextID, call, created, okReturned, cacheVars, hostVars>>

RegistryGet(providerType) ==
  /\ Len(factoryLog) < MaxOps
  /\ LET r == FactoryGet(registry, providerType) IN
       factoryLog' = Append(factoryLog,
                            FactoryCall("Get", providerType, r.provider, r.err))
  /\ UNCHANGED <<registry, table, nextID, call, created, okReturned, cacheVars,
                 hostVars>>

RegistryRemove(providerType) ==
  /\ Len(factoryLog) < MaxOps
  /\ registry' = MapDelete(registry, providerType)
  /\ factoryLog' = Append(factoryLog,
                          FactoryCall("Remove", providerType, "", nil))
  /\ UNCHANGED <<table, nextID, call, created, okReturned, cacheVars, hostVars>>

(***************************************************************************)
(* Calls                                                                   *)
(***************************************************************************)
\* how a callee returned, as recorded in the log of a call
Outcome(err) ==
  IF err = nil THEN "ok"
  ELSE IF ErrorsIs(err, ErrAccountNotFound) THEN "notfound"
  ELSE IF ErrorsIs(err, ErrProviderIDOrAccountAlreadyExists) THEN "exists"
  ELSE "error"

\* the log of c extended with an invocation of `name` that returned err
Logged(c, name, err) ==
  [c EXCEPT !.log = Append(c.log, <<name, Outcome(err)>>)]

\* the invocations of `name` in a log
Invocations(log, name) == {i \in 1..Len(log) : log[i][1] = name}
Invoked(log, name) == Invocations(log, name) # {}

\* the identity key of the pair call record c works on
KeyOf(c) == AccountProviderSK(c.ptype, c.id)

\* variant: Authenticate wraps the provider's error
AfterProviderWrapped(c, r) ==
  IF r.err # nil
  THEN [c EXCEPT !.pc = "ret", !.out = FALSE,
                 !.err = Wrap("provider authentication failed", r.err)]
  ELSE [c EXCEPT !.pc = "resolve", !.id = r.id]

\* Authenticate: what it does with the result r of provider.Authenticate
AfterProvider(c, r) ==
  IF r.err # nil
  THEN [c EXCEPT !.pc = "ret", !.out = FALSE, !.err = r.err]
  ELSE [c EXCEPT !.pc = "resolve", !.id = r.id]

\* Authenticate: what it does with the result f of providerFactory.Get;
\* data and up are the input and the backend's answer of the provider call
AfterGet(c, f, data, up) ==
  IF f.err # nil
  THEN [c EXCEPT !.pc = "ret", !.out = FALSE, !.err = f.err]
  ELSE LET r == providerAuthenticate(f.provider, data, up) IN
       AfterProvider([Logged(c, "Authenticate", r.err) EXCEPT !.perr = r.err], r)

\* a caller invokes authService.Authenticate(ctx, {providerType, data}):
\* the call up to the repository, that is s.providerFactory.Get and
\* provider.Authenticate; `up` is what the provider's backend answers
AuthenticateCall(p, providerType, data, up) ==
  LET c == [IdleCall EXCEPT !.op = "Authenticate", !.ptype = providerType]
      f == FactoryGet(registry, providerType) IN
  /\ CanStart(p)
  /\ call' = [call EXCEPT ![p] = AfterGet(Logged(c, "Get", f.err), f, data, up)]

Authenticate(p, providerType, data, up) ==
  /\ AuthenticateCall(p, providerType, data, up)
  /\ UNCHANGED <<registry, table, nextID, created, okReturned, factoryLog, cacheVars,
                 hostVars>>

\* a caller invokes repository.ResolveIDByProvider directly
ResolveCall(p, providerType, providerID) ==
  /\ CanStart(p)
  /\ call' = [call EXCEPT ![p] =
                [IdleCall EXCEPT !.op = "Resolve", !.pc = "resolve",
                                 !.ptype = providerType, !.id = providerID]]
  /\ UNCHANGED <<registry, table, nextID, created, okReturned, factoryLog, cacheVars,
                 hostVars>>

\* a caller invokes repository.Create directly
CreateCall(p, providerType, providerID) ==
  /\ CanStart(p)
  /\ call' = [call EXCEPT ![p] =
                [IdleCall EXCEPT !.op = "Create", !.pc = "create",
                                 !.ptype = providerType, !.id = providerID]]
  /\ UNCHANGED <<registry, table, nextID, created, okReturned, factoryLog, cacheVars,
                 hostVars>>

\* variant: Authenticate creates an account whatever the resolution returned
AfterResolveAlwaysCreate(c, r) ==
  IF c.op = "Resolve"
  THEN [c EXCEPT !.pc = "ret", !.accountID = r.accountID, !.err = r.err]
  ELSE [c EXCEPT !.pc = "create"]

\* what the caller of ResolveIDByProvider does with its result r
AfterResolve(c, r) ==
  IF c.op = "Resolve"
  THEN [c EXCEPT !.pc = "ret", !.accountID = r.accountID, !.err = r.err]
  ELSE IF r.err = nil
  THEN [c EXCEPT !.pc = "ret", !.out = TRUE, !.accountID = r.accountID,
                 !.isNew = FALSE]
  ELSE IF ErrorsIs(r.err, ErrAccountNotFound)
  THEN [c EXCEPT !.pc = "create"]
  ELSE [c EXCEPT !.pc = "ret", !.out = FALSE,
                 !.err = Wrap("failed to resolve account ID", r.err)]

\* repository.ResolveIDByProvider: the Query and the decoding of its result
ResolveIDByProvider(p) ==
  /\ call[p].pc = "resolve"
  /\ LET c == call[p]
         items == Query(table, AccountProviderSK(c.ptype, c.id),
                        AccountIdentitySKName)
         r == ResolveResult(items) IN
     call' = [call EXCEPT ![p] = AfterResolve(Logged(c, "Resolve", r.err), r)]
  /\ UNCHANGED <<registry, table, nextID, created, okReturned, factoryLog, cacheVars,
                 hostVars>>

\* variant: Authenticate resolves again when Create reports the pair as linked
AfterCreateRetries(c, r) ==
  IF c.op = "Create"
  THEN [c EXCEPT !.pc = "ret", !.accountID = r.accountID, !.err = r.err]
  ELSE IF ErrorsIs(r.err, ErrProviderIDOrAccountAlreadyExists)
  THEN [c EXCEPT !.pc = "resolve"]
  ELSE IF r.err # nil
  THEN [c EXCEPT !.pc = "ret", !.out = FALSE,
                 !.err = Wrap("failed to create account", r.err)]
  ELSE [c EXCEPT !.pc = "ret", !.out = TRUE, !.accountID = r.accountID,
                 !.isNew = TRUE]

\* variant: Authenticate does not flag the account it created as new
AfterCreateNotNew(c, r) ==
  IF c.op = "Create"
  THEN [c EXCEPT !.pc = "ret", !.accountID = r.accountID, !.err = r.err]
  ELSE IF r.err # nil
  THEN [c EXCEPT !.pc = "ret", !.out = FALSE,
                 !.err = Wrap("failed to create account", r.err)]
  ELSE [c EXCEPT !.pc = "ret", !.out = TRUE, !.accountID = r.accountID,
                 !.isNew = FALSE]

\* what the caller of Create does with its result r
\* variant: Authenticate does not look at the error of Create
AfterCreateIgnoresError(c, r) ==
  IF c.op = "Create"
  THEN [c EXCEPT !.pc = "ret", !.accountID = r.accountID, !.err = r.err]
  ELSE [c EXCEPT !.pc = "ret", !.out = TRUE, !.accountID = r.accountID,
                 !.isNew = TRUE]

AfterCreate(c, r) ==
  IF c.op = "Create"
  THEN [c EXCEPT !.pc = "ret", !.accountID = r.accountID, !.err = r.err]
  ELSE IF r.err # nil
  THEN [c EXCEPT !.pc = "ret", !.out = FALSE,
                 !.err = Wrap("failed to create account", r.err)]
  ELSE [c EXCEPT !.pc = "ret", !.out = TRUE, !.accountID = r.accountID,
                 !.isNew = TRUE]

\* variant: the transaction writes the identity record alone
TransactItemsIdentityOnly(accountID, providerType, providerID, t) ==
  LET data == DDBAccountProviderRecordData(accountID, providerType,
                                           providerID, FormatRFC3339(t))
  IN << identityRecord(data) >>

\* the two Put items of the transaction
TransactItems(accountID, providerType, providerID, t) ==
  LET data == DDBAccountProviderRecordData(accountID, providerType,
                                           providerID, FormatRFC3339(t))
  IN << identityRecord(data), accountRecord(data) >>

\* variant: Create returns the generated id also when it fails
CreateResultKeepsID(accountID, res) ==
  IF res.reasons = << >>
  THEN [accountID |-> accountID, err |-> nil]
  ELSE [accountID |-> accountID, err |-> CreateError(res.reasons)]

\* the result of Create for the outcome res of its transaction
CreateResult(accountID, res) ==
  IF res.reasons = << >>
  THEN [accountID |-> accountID, err |-> nil]
  ELSE [accountID |-> EmptyAccountID, err |-> CreateError(res.reasons)]

\* created after Create returned r for the pair with identity key k
Recorded(k, r) ==
  IF r.err = nil
  THEN MapSet(created, k, Append(MapGet(created, k, << >>), r.accountID))
  ELSE created

\* repository.Create when r.idGenerator.GenerateID() returns accountID: the
\* instant t read from the wall clock, the TransactWriteItems request and the
\* mapping of its result
CreateWith(p, t, accountID) ==
  /\ call[p].pc = "create"
  /\ nextID <= MaxIDs
  /\ LET c == call[p]
         res == TransactWriteItems(
                  table, TransactItems(accountID, c.ptype, c.id, t))
         r == CreateResult(accountID, res) IN
     /\ table' = res.table
     /\ call' = [call EXCEPT ![p] = AfterCreate(Logged(c, "Create", r.err), r)]
     /\ created' = Recorded(KeyOf(c), r)
  /\ nextID' = nextID + 1
  /\ UNCHANGED <<registry, okReturned, factoryLog, cacheVars, hostVars>>

\* repository.Create with the KSUID generator
Create(p, t) == CreateWith(p, t, GenerateID(nextID))

\* repository.Create with an IDGenerator that can return an identifier it
\* has returned before
CreateAnyID(p, t, n) ==
  /\ n \in 1..nextID
  /\ CreateWith(p, t, GenerateID(n))

\* the call returns to its caller and its slot is free again
Return(p) ==
  /\ call[p].pc = "ret"
  /\ LET c == call[p] IN
     okReturned' = IF c.op = "Authenticate" /\ c.out
                   THEN okReturned \cup {KeyOf(c)}
                   ELSE okReturned
  /\ call' = [call EXCEPT ![p] = IdleCall]
  /\ UNCHANGED <<registry, table, nextID, created, factoryLog, cacheVars, hostVars>>

\* Return, seen by an observer who keeps, for each pair, the AccountIDs that
\* successful Authenticate calls returned and how many had IsNew = true
ReturnObserved(p) ==
  /\ call[p].pc = "ret"
  /\ LET c == call[p]
         h == MapGet(history, KeyOf(c), NoResults) IN
     IF c.op = "Authenticate" /\ c.out
     THEN /\ okReturned' = okReturned \cup {KeyOf(c)}
          /\ history' = MapSet(history, KeyOf(c),
                               [news |-> h.news + (IF c.isNew THEN 1 ELSE 0),
                                ids |-> h.ids \cup {c.accountID}])
     ELSE UNCHANGED <<okReturned, history>>
  /\ call' = [call EXCEPT ![p] = IdleCall]
  /\ UNCHANGED <<registry, table, nextID, created, factoryLog, cacheVars,
                 managers, instances, used, manager, health>>

(***************************************************************************)
(* Store failures: the request does not get an answer (transport failure,  *)
(* cancelled context)                                                      *)
(***************************************************************************)
\* ResolveIDByProvider when client.Query returns an error
QueryFails(p) ==
  /\ call[p].pc = "resolve"
  /\ LET c == call[p]
         r == [accountID |-> EmptyAccountID,
               err |-> Wrap("failed to query DynamoDB",
                            ErrorsNew("request failed"))] IN
     call' = [call EXCEPT ![p] = AfterResolve(Logged(c, "Resolve", r.err), r)]
  /\ UNCHANGED <<registry, table, nextID, created, okReturned, factoryLog, cacheVars,
                 hostVars>>

\* Create when client.TransactWriteItems returns an error that is not a
\* cancelled transaction; the store has applied the request or it has not
TransactFails(p) ==
  /\ call[p].pc = "create"
  /\ nextID <= MaxIDs
  /\ \E t \in Times, applied \in BOOLEAN :
       LET c == call[p]
           accountID == GenerateID(nextID)
           res == TransactWriteItems(
                    table, TransactItems(accountID, c.ptype, c.id, t))
           r == [accountID |-> EmptyAccountID,
                 err |-> Wrap("failed to execute transaction when creating account",
                              ErrorsNew("request failed"))] IN
       /\ table' = IF applied THEN res.table ELSE table
       /\ call' = [call EXCEPT ![p] = AfterCreate(Logged(c, "Create", r.err), r)]
  /\ nextID' = nextID + 1
  /\ UNCHANGED <<registry, created, okReturned, factoryLog, cacheVars, hostVars>>

(***************************************************************************)
(* Query responses the table's primary key rules out: the DynamoDBAPI      *)
(* client is a port, and ResolveIDByProvider defends against them          *)
(***************************************************************************)
\* an AccountID no Create of this repository has generated
ForeignAccountID == "acct-0"

\* ResolveIDByProvider when attributevalue.UnmarshalMap fails on the one item
\* that Query returned
UnmarshalFails(p) ==
  /\ call[p].pc = "resolve"
  /\ LET c == call[p]
         items == Query(table, KeyOf(c), AccountIdentitySKName)
         r == [accountID |-> EmptyAccountID,
               err |-> Wrap("failed to unmarshal DynamoDB items",
                            ErrorsNew("unmarshal type error"))] IN
     /\ Cardinality(items) = 1
     /\ call' = [call EXCEPT ![p] = AfterResolve(Logged(c, "Resolve", r.err), r)]
  /\ UNCHANGED <<registry, table, nextID, created, okReturned, factoryLog, cacheVars,
                 hostVars>>

\* ResolveIDByProvider when Query returns a second item for the key of a
\* linked pair
DuplicateAnswer(p) ==
  /\ call[p].pc = "resolve"
  /\ LET c == call[p]
         links == Query(table, KeyOf(c), AccountIdentitySKName)
         ghost == identityRecord(DDBAccountProviderRecordData(
                    ForeignAccountID, c.ptype, c.id, FormatRFC3339(0)))
         r == ResolveResult(links \cup {ghost}) IN
     /\ links # {}
     /\ call' = [call EXCEPT ![p] = AfterResolve(Logged(c, "Resolve", r.err), r)]
  /\ UNCHANGED <<registry, table, nextID, created, okReturned, factoryLog, cacheVars,
                 hostVars>>

(***************************************************************************)
(* The public-key cache (simpleCacheManager).  Instants are clock ticks;   *)
(* the cache stores and compares whole seconds.                            *)
(***************************************************************************)
\* time.Time.Unix(): the whole seconds of an instant
Unix(t) == t \div TicksPerSecond

\* the instants an expiry can be given as
ExpiryTimes == 0..(MaxTime + 1)

\* a Get that still returns the key during the second of its expiry
cacheGetInclusive(c, t, id) ==
  IF id \in DOMAIN c /\ Unix(t) <= c[id].expiresAt THEN c[id].pubKey ELSE NoKey

\* the value Get returns at instant t
cacheGet(c, t, id) ==
  IF id \in DOMAIN c /\ Unix(t) < c[id].expiresAt THEN c[id].pubKey ELSE NoKey

\* the map after Add
cacheAdd(c, id, pub, expiresAt) ==
  MapSet(c, id, [pubKey |-> pub, expiresAt |-> Unix(expiresAt)])

\* a Reset whose loop stops after the first delete
cacheResetFirstOnly(c) ==
  IF DOMAIN c = {} THEN c ELSE MapDelete(c, CHOOSE k \in DOMAIN c : TRUE)

\* the map after Reset: the range loop deletes every key
RECURSIVE cacheReset(_)
cacheReset(c) ==
  IF DOMAIN c = {} THEN c
  ELSE cacheReset(MapDelete(c, CHOOSE k \in DOMAIN c : TRUE))

CacheGet(id) ==
  /\ got' = [id |-> id, key |-> cacheGet(cache, now, id)]
  /\ UNCHANGED <<serviceVars, now, cache, added, access, look, owner, hostVars>>

CacheAdd(id, pub, expiresAt) ==
  /\ cache' = cacheAdd(cache, id, pub, expiresAt)
  /\ added' = MapSet(added, id,
                     [pubKey |-> pub, expiresAt |-> expiresAt, live |-> TRUE])
  /\ got' = NoGot
  /\ UNCHANGED <<serviceVars, now, access, look, owner, hostVars>>

CacheReset ==
  /\ cache' = cacheReset(cache)
  /\ added' = [id \in DOMAIN added |-> [added[id] EXCEPT !.live = FALSE]]
  /\ got' = NoGot
  /\ UNCHANGED <<serviceVars, now, access, look, owner, hostVars>>

\* the wall clock advances
Tick ==
  /\ now < MaxTime
  /\ now' = now + 1
  /\ UNCHANGED <<serviceVars, cache, added, got, access, look, owner, hostVars>>

(***************************************************************************)
(* The cache under concurrent callers.  The provider that owns the cache   *)
(* is one value shared by every call, so its methods run on the goroutines *)
(* of the calls.  A method is two steps: the goroutine reaches the         *)
(* statement that touches the map (at = "map") and the statement           *)
(* completes.  No method takes a lock.                                     *)
(***************************************************************************)
IsWrite(a) == a.at = "map" /\ a.op \in {"Add", "Reset"}
IsRead(a) == a.at = "map" /\ a.op = "Get"

\* another goroutine touches the map while p does, and one of them writes
Races(p) ==
  \E q \in Procs \ {p} :
    /\ access[p].at = "map"
    /\ access[q].at = "map"
    /\ (IsWrite(access[p]) \/ IsWrite(access[q]))

\* Get reaches e, ok := cm.cache[id]
BeginGet(p, id) ==
  /\ access[p].at = "out"
  /\ access' = [access EXCEPT ![p] = [NoAccess EXCEPT !.op = "Get", !.id = id,
                                                      !.at = "map"]]
  /\ UNCHANGED <<serviceVars, now, cache, added, got, look, owner, hostVars>>

\* Add reaches cm.cache[id] = cacheEntry{..}
BeginAdd(p, id, pub, expiresAt) ==
  /\ access[p].at = "out"
  /\ access' = [access EXCEPT ![p] =
                  [op |-> "Add", id |-> id, pubKey |-> pub,
                   expiresAt |-> expiresAt, at |-> "map"]]
  /\ UNCHANGED <<serviceVars, now, cache, added, got, look, owner, hostVars>>

\* Reset reaches its range loop
BeginReset(p) ==
  /\ access[p].at = "out"
  /\ access' = [access EXCEPT ![p] = [NoAccess EXCEPT !.op = "Reset",
                                                      !.at = "map"]]
  /\ UNCHANGED <<serviceVars, now, cache, added, got, look, owner, hostVars>>

\* the statement completes and the method returns.  A map read that races
\* with a write has no defined result.
EndAccess(p) ==
  /\ access[p].at = "map"
  /\ LET a == access[p] IN
       CASE a.op = "Get" ->
              /\ \E k \in PublicKeys \cup {NoKey} :
                   /\ Races(p) \/ k = cacheGet(cache, now, a.id)
                   /\ got' = [id |-> a.id, key |-> k]
              /\ UNCHANGED <<cache, added>>
         [] a.op = "Add" ->
              /\ cache' = cacheAdd(cache, a.id, a.pubKey, a.expiresAt)
              /\ added' = MapSet(added, a.id,
                                 [pubKey |-> a.pubKey,
                                  expiresAt |-> a.expiresAt, live |-> TRUE])
              /\ got' = NoGot
         [] OTHER ->
              /\ cache' = cacheReset(cache)
              /\ added' = [id \in DOMAIN added |->
                             [added[id] EXCEPT !.live = FALSE]]
              /\ got' = NoGot
  /\ access' = [access EXCEPT ![p] = NoAccess]
  /\ UNCHANGED <<serviceVars, now, look, owner, hostVars>>

\* the runtime detects the racing map access and aborts the process
\* ("fatal error: concurrent map read and map write")
RuntimeFatal(p) ==
  /\ Races(p)
  /\ access' = [q \in Procs |-> [access[q] EXCEPT !.at = "fatal"]]
  /\ UNCHANGED <<serviceVars, now, cache, added, got, look, owner, hostVars>>

(***************************************************************************)
(* Token verification against the provider's published keys                *)
(* (googleProvider / appleProvider: verifyIDToken, fetchPublicKeyByID).    *)
(* A verification is the part of provider.Authenticate after the code      *)
(* exchange: the token names a key id, is signed by the key the endpoint   *)
(* publishes under that id and is otherwise valid.  The certs request is a *)
(* suspension point; the loop of Adds that follows the response has none.  *)
(***************************************************************************)
KeyProviderTypes == {ProviderTypeGoogle, ProviderTypeApple}

\* the key the certs endpoint publishes under a key id
PublishedKey(id) == IF id = "kid1" THEN "pk1" ELSE "pk2"

\* the key sets a certs response can carry
Responses == {{}, {"kid1"}, {"kid1", "kid2"}}

\* the instants an Expires header can name: RFC1123 has whole seconds
HeaderTimes == {sec * TicksPerSecond : sec \in 0..(Unix(MaxTime) + 1)}

\* time.Now().Add(1 * time.Hour) - time.Now()
AppleLease == 3600 * TicksPerSecond

\* a refill that gives every key a lease of one hour whatever the answer's
\* Expires header says
RefillExpiryLeased(ptype, expires, t) == t + AppleLease

\* the expiry the refill gives to Add
RefillExpiry(ptype, expires, t) ==
  IF ptype = ProviderTypeGoogle THEN expires ELSE t + AppleLease

\* fetchPublicKeyByID: the certs request failed
FetchError(ptype) ==
  IF ptype = ProviderTypeGoogle THEN ErrorsNew("Get certs url: EOF")
  ELSE Wrap("failed to fetch public keys from certs url",
            ErrorsNew("Get certs url: EOF"))

\* a fetchPublicKeyByID that returns no error when the key id is still
\* absent after the refill
KeyNotFoundIgnored(id) == nil

\* fetchPublicKeyByID: the key id is absent after the refill
KeyNotFound(id) == ErrorsNew("public key id '" \o id \o "' not found")

\* credentials.IDTokenExpectedIssuer and IDTokenExpectedAudience
ExpectedIssuer == "https://issuer"
ExpectedAudience == "client-id"

\* an identity token: the key id of its header, the key whose private half
\* signed it, and its claims
Tokens ==
  [kid : KeyIDs, signer : PublicKeys,
   iss : {ExpectedIssuer, "https://other"},
   aud : {ExpectedAudience, "other-client"},
   nonce : {"n", "n2"}, email : {"a@x", "b@x"}, sub : {"s1", "s2"}]

\* a token of subject s1 that passes every check
ValidToken(kid) ==
  [kid |-> kid, signer |-> PublishedKey(kid), iss |-> ExpectedIssuer,
   aud |-> ExpectedAudience, nonce |-> "n", email |-> "a@x", sub |-> "s1"]

\* the AuthData that goes with ValidToken
ValidData(ptype) ==
  IF ptype = ProviderTypeGoogle THEN GoogleData ELSE AppleData("s1")

\* the name the provider gives to a token that the jwt parser rejects
ParseErrorText(ptype) ==
  IF ptype = ProviderTypeGoogle THEN "token parse error"
  ELSE "token parser error"

\* an Apple verifyIDToken that does not compare the nonce
appleClaimsErrorNoNonce(token, nonce, email) ==
  IF token.iss # ExpectedIssuer THEN ErrorsNew("invalid issuer")
  ELSE IF token.aud # ExpectedAudience THEN ErrorsNew("invalid audience")
  ELSE IF email # "" /\ email # token.email THEN ErrorsNew("invalid email")
  ELSE nil

\* appleProvider.verifyIDToken: the checks on the claims of a token whose
\* signature has been verified
appleClaimsError(token, nonce, email) ==
  IF token.iss # ExpectedIssuer THEN ErrorsNew("invalid issuer")
  ELSE IF token.aud # ExpectedAudience THEN ErrorsNew("invalid audience")
  ELSE IF token.nonce # nonce THEN ErrorsNew("invalid nonce")
  ELSE IF email # "" /\ email # token.email THEN ErrorsNew("invalid email")
  ELSE nil

\* googleProvider.verifyIDToken: the checks on the claims
googleClaimsError(token) ==
  IF token.iss # ExpectedIssuer THEN ErrorsNew("invalid issuer")
  ELSE IF token.aud # ExpectedAudience THEN ErrorsNew("invalid audience")
  ELSE nil

\* verifyIDToken: the error it returns, given what fetchPublicKeyByID
\* returned for the token's key id
verifyIDToken(ptype, data, token, key, err) ==
  IF err # nil
  THEN Wrap(ParseErrorText(ptype),
         Wrap("token is unverifiable: error while executing keyfunc",
           Wrap("failed to get public keys", err)))
  ELSE IF key # token.signer
  THEN Wrap(ParseErrorText(ptype), ErrorsNew("token signature is invalid"))
  ELSE IF ptype = ProviderTypeGoogle THEN googleClaimsError(token)
  ELSE appleClaimsError(token, data[AppleNonceFieldName],
                        data[AppleEmailFieldName])

\* verifyIDToken and the rest of Authenticate
verifyAndReturn(ptype, data, token, key, err) ==
  LET v == verifyIDToken(ptype, data, token, key, err) IN
    IF v # nil
    THEN [id |-> "", err |-> Wrap("failed to verify id token", v)]
    ELSE IF ptype = ProviderTypeApple
            /\ data[AppleUserIDFieldName] # token.sub
    THEN [id |-> "", err |-> ErrorsNew("userID mismatch")]
    ELSE [id |-> token.sub, err |-> nil]

\* fetchPublicKeyByID returns (key, err) and Authenticate completes
Done(l, ptype, key, err) ==
  [l EXCEPT !.pc = "done", !.key = key, !.err = err, !.keys = {},
            !.out = verifyAndReturn(ptype, l.data, l.token, key, err)]

\* Authenticate reaches verifyIDToken with a token that names kid
Verify(p, ptype, kid) ==
  /\ look[p].pc = "idle"
  /\ \A q \in Procs : q < p => look[q].pc # "idle"
  /\ owner \in {"", ptype}
  /\ owner' = ptype
  /\ look' = [look EXCEPT ![p] =
                [IdleLookup EXCEPT !.pc = "get", !.kid = kid,
                                   !.data = ValidData(ptype),
                                   !.token = ValidToken(kid)]]
  /\ UNCHANGED <<serviceVars, now, cache, added, got, access, hostVars>>

\* a fetchPublicKeyByID that goes to the certs endpoint whatever Get returns
LookupGetAlwaysFetches(p) ==
  /\ look[p].pc = "get"
  /\ look' = [look EXCEPT ![p] = [@ EXCEPT !.pc = "fetch"]]
  /\ UNCHANGED <<serviceVars, now, cache, added, got, access, owner, hostVars>>

\* key := p.cacheManager.Get(id)
LookupGet(p) ==
  /\ look[p].pc = "get"
  /\ LET key == cacheGet(cache, now, look[p].kid) IN
       look' = [look EXCEPT ![p] =
                  IF key = NoKey THEN [@ EXCEPT !.pc = "fetch"]
                  ELSE Done(@, owner, key, nil)]
  /\ UNCHANGED <<serviceVars, now, cache, added, got, access, owner, hostVars>>

\* http.Get(CertsURL) fails
FetchFails(p) ==
  /\ look[p].pc = "fetch"
  /\ look' = [look EXCEPT ![p] =
                Done([@ EXCEPT !.fetches = @ + 1], owner, NoKey,
                     FetchError(owner))]
  /\ UNCHANGED <<serviceVars, now, cache, added, got, access, owner, hostVars>>

\* googleProvider.fetchPublicKeyByID: time.Parse(time.RFC1123, ...) rejects
\* the Expires header of the answer (an absent header is the empty string)
ExpiresParseError ==
  Wrap("failed to parse expires header", ErrorsNew("parsing time"))

\* http.Get(CertsURL) answers without an Expires header that parses: the
\* function returns before it decodes the body
ExpiresUnparseable(p) ==
  /\ look[p].pc = "fetch"
  /\ owner = ProviderTypeGoogle
  /\ look' = [look EXCEPT ![p] =
                Done([@ EXCEPT !.fetches = @ + 1], owner, NoKey,
                     ExpiresParseError)]
  /\ UNCHANGED <<serviceVars, now, cache, added, got, access, owner, hostVars>>

\* the cache and the history of Adds after the loop over the response
RECURSIVE AddAll(_, _, _)
AddAll(c, ids, expiresAt) ==
  IF ids = {} THEN c
  ELSE LET id == CHOOSE k \in ids : TRUE IN
         AddAll(cacheAdd(c, id, PublishedKey(id), expiresAt), ids \ {id},
                expiresAt)

RECURSIVE AddedAll(_, _, _)
AddedAll(h, ids, expiresAt) ==
  IF ids = {} THEN h
  ELSE LET id == CHOOSE k \in ids : TRUE IN
         AddedAll(MapSet(h, id, [pubKey |-> PublishedKey(id),
                                 expiresAt |-> expiresAt, live |-> TRUE]),
                  ids \ {id}, expiresAt)

\* http.Get(CertsURL) answers with the keys of `keys` (Google's answer
\* carries the Expires header `expires`) and the loop adds each of them
Refill(p, keys, expires) ==
  /\ look[p].pc = "fetch"
  /\ LET e == RefillExpiry(owner, expires, now) IN
       /\ cache' = AddAll(cache, keys, e)
       /\ added' = AddedAll(added, keys, e)
  /\ look' = [look EXCEPT ![p] =
                [@ EXCEPT !.pc = "reread", !.fetches = @ + 1, !.keys = keys]]
  /\ UNCHANGED <<serviceVars, now, got, access, owner, hostVars>>

\* base64 text as a sequence of characters
Base64Alphabet == {"A", "B", "Q", "-", "_"}
GoodText == <<"A", "Q", "A", "B">>
ShortText == <<"A", "Q", "A">>
BadLengthText == <<"A">>
BadCharText == <<"A", "*", "A", "B">>

\* base64URLDecode: pads a text of length 2 or 3 modulo 4 and decodes it;
\* TRUE when base64.URLEncoding.DecodeString accepts the padded text
base64URLDecode(data) ==
  LET padded == IF Len(data) % 4 = 2 THEN Len(data) + 2
                ELSE IF Len(data) % 4 = 3 THEN Len(data) + 1
                ELSE Len(data) IN
    /\ padded % 4 = 0
    /\ \A i \in 1..Len(data) : data[i] \in Base64Alphabet

\* the appleJWK entries a JWKS answer can carry for a key id
RSAKey(kid) == [kid |-> kid, kty |-> "RSA", n |-> GoodText, e |-> ShortText]
JWKsOf(kid) ==
  {RSAKey(kid),
   [RSAKey(kid) EXCEPT !.kty = "EC"],
   [RSAKey(kid) EXCEPT !.n = BadCharText],
   [RSAKey(kid) EXCEPT !.e = BadLengthText]}
JWKs == UNION {JWKsOf(kid) : kid \in KeyIDs}

\* the lists of keys a JWKS answer can carry: the loop looks at no entry
\* after the first one it rejects, so one bad entry per list is enough
MaxKeys == 3
JWKSResponses ==
  {jwks \in UNION {[1..n -> JWKs] : n \in 0..MaxKeys} :
     Cardinality({i \in DOMAIN jwks : jwks[i] # RSAKey(jwks[i].kid)}) <= 1}

\* a createPublicKeyFromJWK that accepts every entry
createPublicKeyFromJWKAny(jwk) == [key |-> PublishedKey(jwk.kid), err |-> nil]

\* createPublicKeyFromJWK
createPublicKeyFromJWK(jwk) ==
  IF jwk.kty # "RSA"
  THEN [key |-> NoKey,
        err |-> ErrorsNew("expected RSA key type, got: " \o jwk.kty)]
  ELSE IF ~base64URLDecode(jwk.n)
  THEN [key |-> NoKey,
        err |-> Wrap("failed to decode modulus",
                     ErrorsNew("illegal base64 data"))]
  ELSE IF ~base64URLDecode(jwk.e)
  THEN [key |-> NoKey,
        err |-> Wrap("failed to decode exponent",
                     ErrorsNew("illegal base64 data"))]
  ELSE [key |-> PublishedKey(jwk.kid), err |-> nil]

\* appleProvider.fetchPublicKeyByID: the loop over jwks.Keys, which returns
\* at the first entry that createPublicKeyFromJWK rejects
RECURSIVE refillJWKS(_, _, _, _)
refillJWKS(c, h, jwks, t) ==
  IF jwks = << >> THEN [cache |-> c, added |-> h, err |-> nil]
  ELSE LET jwk == Head(jwks)
           k == createPublicKeyFromJWK(jwk) IN
    IF k.err # nil
    THEN [cache |-> c, added |-> h,
          err |-> Wrap("failed to create public key from JWK key id "
                         \o jwk.kid, k.err)]
    ELSE refillJWKS(cacheAdd(c, jwk.kid, k.key, t + AppleLease),
                    MapSet(h, jwk.kid, [pubKey |-> k.key,
                                        expiresAt |-> t + AppleLease,
                                        live |-> TRUE]),
                    Tail(jwks), t)

\* one verification of the Apple provider at a time
AppleVerify(p, kid) ==
  /\ \A q \in Procs : look[q].pc = "idle"
  /\ Verify(p, ProviderTypeApple, kid)

\* http.Get(CertsURL) of the Apple provider answers with the list jwks and
\* the loop adds its entries in order
AppleRefill(p, jwks) ==
  /\ look[p].pc = "fetch"
  /\ owner = ProviderTypeApple
  /\ LET r == refillJWKS(cache, added, jwks, now) IN
       /\ cache' = r.cache
       /\ added' = r.added
       /\ look' = [look EXCEPT ![p] =
                     IF r.err # nil
                     THEN Done([@ EXCEPT !.fetches = @ + 1, !.jwks = jwks],
                               owner, NoKey, r.err)
                     ELSE [@ EXCEPT !.pc = "reread", !.fetches = @ + 1,
                                    !.jwks = jwks,
                                    !.keys = {jwks[i].kid :
                                                i \in DOMAIN jwks}]]
  /\ UNCHANGED <<serviceVars, now, got, access, owner, hostVars>>

\* a re-read that fetches again when the key id is still absent
RereadFetchesAgain(p) ==
  /\ look[p].pc = "reread"
  /\ LET key == cacheGet(cache, now, look[p].kid) IN
       look' = [look EXCEPT ![p] =
                  IF key = NoKey THEN [@ EXCEPT !.pc = "fetch"]
                  ELSE Done(@, owner, key, nil)]
  /\ UNCHANGED <<serviceVars, now, cache, added, got, access, owner, hostVars>>

\* key = p.cacheManager.Get(id) after the loop, and the return
Reread(p) ==
  /\ look[p].pc = "reread"
  /\ LET key == cacheGet(cache, now, look[p].kid) IN
       look' = [look EXCEPT ![p] =
                  Done(@, owner, key,
                       IF key = NoKey THEN KeyNotFound(look[p].kid) ELSE nil)]
  /\ UNCHANGED <<serviceVars, now, cache, added, got, access, owner, hostVars>>

\* the caller of Authenticate takes the result
VerifyReturn(p) ==
  /\ look[p].pc = "done"
  /\ look' = [look EXCEPT ![p] = IdleLookup]
  /\ UNCHANGED <<serviceVars, now, cache, added, got, access, owner, hostVars>>

(***************************************************************************)
(* provider.Authenticate of the Google and Apple providers, step by step:  *)
(* the check of the AuthData, the code exchange (an outbound request), the *)
(* key lookup above and the checks on the token.                           *)
(***************************************************************************)
\* the AuthData fields a provider requires, in the order it reads them
RequiredFields(ptype) ==
  IF ptype = ProviderTypeGoogle THEN <<GoogleAuthCodeFieldName>>
  ELSE <<AppleIdentityTokenFieldName, AppleAuthorizationCodeFieldName,
         AppleUserIDFieldName, AppleNonceFieldName, AppleEmailFieldName>>

\* the first required field that data lacks, "" when it has them all
RECURSIVE FirstMissing(_, _)
FirstMissing(fields, data) ==
  IF fields = << >> THEN ""
  ELSE IF ~Has(data, Head(fields)) THEN Head(fields)
  ELSE FirstMissing(Tail(fields), data)

\* the error Authenticate returns for data that lacks the field f
MissingFieldError(ptype, f) ==
  IF ptype = ProviderTypeGoogle THEN ErrMissingRequiredProviderAuthData
  ELSE ErrorsNew("missing required field: " \o f)

AppleDataOf(u, n, e) ==
  [identityToken |-> "jwt", authorizationCode |-> "code", userID |-> u,
   nonce |-> n, email |-> e]

\* the AuthData maps a client can send to a provider
ProviderDatas(ptype) ==
  IF ptype = ProviderTypeGoogle
  THEN {NoData, GoogleData, [token |-> "code", nonce |-> "n"],
        [token |-> "code", nonce |-> "n2"]}
  ELSE {AppleDataOf(u, n, e) :
          u \in {"s1", "s2"}, n \in {"n", "n2"}, e \in {"", "a@x", "b@x"}}
       \cup {MapDelete(AppleData("s1"), f) : f \in DOMAIN AppleData("s1")}

\* an Authenticate that starts the code exchange before it has looked at
\* the fields of data
ProviderCallExchangesFirst(p, ptype, data) ==
  /\ \A q \in Procs : look[q].pc = "idle"
  /\ p = 1
  /\ owner \in {"", ptype}
  /\ owner' = ptype
  /\ look' = [look EXCEPT ![p] =
                [IdleLookup EXCEPT !.pc = "exchange", !.data = data]]
  /\ UNCHANGED <<serviceVars, now, cache, added, got, access, hostVars>>

\* a client calls provider.Authenticate(ctx, data); the calls of this part
\* follow one another
ProviderCall(p, ptype, data) ==
  /\ \A q \in Procs : look[q].pc = "idle"
  /\ p = 1
  /\ owner \in {"", ptype}
  /\ owner' = ptype
  /\ LET f == FirstMissing(RequiredFields(ptype), data) IN
       look' = [look EXCEPT ![p] =
                  IF f # ""
                  THEN [IdleLookup EXCEPT
                          !.pc = "done", !.data = data,
                          !.out = [id |-> "",
                                   err |-> MissingFieldError(ptype, f)]]
                  ELSE [IdleLookup EXCEPT !.pc = "exchange", !.data = data]]
  /\ UNCHANGED <<serviceVars, now, cache, added, got, access, hostVars>>

\* the token endpoint answers with an identity token
Exchange(p, token) ==
  /\ look[p].pc = "exchange"
  /\ look' = [look EXCEPT ![p] =
                [@ EXCEPT !.pc = "get", !.exchanges = @ + 1,
                          !.token = token, !.kid = token.kid]]
  /\ UNCHANGED <<serviceVars, now, cache, added, got, access, owner, hostVars>>

\* the token endpoint does not answer, or not with 200
ExchangeFails(p) ==
  /\ look[p].pc = "exchange"
  /\ look' = [look EXCEPT ![p] =
                [@ EXCEPT !.pc = "done", !.exchanges = @ + 1,
                          !.out = [id |-> "",
                                   err |-> Wrap("failed to exchange auth code",
                                             ErrorsNew("token exchange failed"))]]]
  /\ UNCHANGED <<serviceVars, now, cache, added, got, access, owner, hostVars>>

(***************************************************************************)
(* The service called with the AuthData of a client and the identity token *)
(* that the provider's token endpoint returns for it.  look[p] keeps both  *)
(* for the call in slot p; the code exchange succeeds and the key of the   *)
(* token's key id is found.                                                *)
(***************************************************************************)
GuestDatas == {[id |-> "device-123"], [id |-> "device-456"]}

\* what the backend of the provider does for a call with this token
UpstreamFor(providerType, data, token) ==
  IF providerType = ProviderTypeGuest
  THEN [exchange |-> TRUE, verify |-> TRUE, sub |-> "s1"]
  ELSE [exchange |-> TRUE,
        verify |-> verifyIDToken(providerType, data, token,
                                 PublishedKey(token.kid), nil) = nil,
        sub |-> token.sub]

\* a client sends data to authService.Authenticate; the provider obtains
\* token for it
AuthenticateToken(p, providerType, data, token) ==
  /\ AuthenticateCall(p, providerType, data,
                      UpstreamFor(providerType, data, token))
  /\ look' = [look EXCEPT ![p] =
                [IdleLookup EXCEPT !.pc = "done", !.data = data,
                                   !.token = token]]
  /\ UNCHANGED <<registry, table, nextID, created, okReturned, factoryLog,
                 now, cache, added, got, access, owner, hostVars>>

(***************************************************************************)
(* Cancellation.  The service call of slot p runs the Google provider's    *)
(* Authenticate as the steps of look[p] and then the repository; the       *)
(* caller may cancel the context of the call while a request is in flight. *)
(* client.Query and client.TransactWriteItems take the context and return  *)
(* its error once it is cancelled; http.PostForm and http.Get take none.   *)
(***************************************************************************)
\* the requests of call p that can be in flight
InFlight(p) ==
  \/ call[p].pc \in {"resolve", "create"}
  \/ call[p].pc = "provider" /\ look[p].pc \in {"exchange", "fetch"}

Cancelled(p) == look[p].cancelled

\* authService.Authenticate up to provider.Authenticate, which has checked
\* the AuthData and has posted the code exchange
AuthenticateBegin(p) ==
  LET c == [IdleCall EXCEPT !.op = "Authenticate",
                            !.ptype = ProviderTypeGoogle]
      f == FactoryGet(registry, ProviderTypeGoogle) IN
  /\ CanStart(p)
  /\ f.err = nil
  /\ nextID + Cardinality({q \in Procs : call[q].pc # "idle"}) <= MaxIDs
  /\ call' = [call EXCEPT ![p] = [Logged(c, "Get", f.err) EXCEPT
                                    !.pc = "provider"]]
  /\ look' = [look EXCEPT ![p] =
                [IdleLookup EXCEPT !.pc = "exchange",
                                   !.data = ValidData(ProviderTypeGoogle)]]
  /\ owner' = ProviderTypeGoogle
  /\ UNCHANGED <<registry, table, nextID, created, okReturned, factoryLog,
                 now, cache, added, got, access, hostVars>>

\* provider.Authenticate returns to authService.Authenticate
ProviderReturns(p) ==
  /\ call[p].pc = "provider"
  /\ look[p].pc = "done"
  /\ LET r == look[p].out
         c == [Logged(call[p], "Authenticate", r.err) EXCEPT !.perr = r.err] IN
       call' = [call EXCEPT ![p] = AfterProvider(c, r)]
  /\ look' = [look EXCEPT ![p].pc = "returned"]
  /\ UNCHANGED <<registry, table, nextID, created, okReturned, factoryLog,
                 now, cache, added, got, access, owner, hostVars>>

\* the caller cancels the context of call p
Cancel(p) ==
  /\ InFlight(p)
  /\ ~Cancelled(p)
  /\ look' = [look EXCEPT ![p].cancelled = TRUE]
  /\ UNCHANGED <<serviceVars, now, cache, added, got, access, owner, hostVars>>

\* the store answers a request whose context is not cancelled
StoreAnswers(p) ==
  /\ ~Cancelled(p)
  /\ ResolveIDByProvider(p) \/ Create(p, 0)

\* the store client gives up a request whose context is cancelled
StoreAborts(p) ==
  /\ Cancelled(p)
  /\ QueryFails(p) \/ TransactFails(p)

\* the token endpoint or the certs endpoint answers, whether or not the
\* context is cancelled
HTTPAnswers(p) ==
  /\ call[p].pc = "provider"
  /\ \/ Exchange(p, ValidToken("kid1"))
     \/ ExchangeFails(p)
     \/ FetchFails(p)
     \/ Refill(p, {"kid1"}, (Unix(MaxTime) + 1) * TicksPerSecond)

\* the steps of the provider that wait for nothing
ProviderRuns(p) ==
  /\ call[p].pc = "provider"
  /\ LookupGet(p) \/ Reread(p)

(***************************************************************************)
(* Provider instances and their cache managers (NewGoogleProvider,         *)
(* NewAppleProvider).  A cache manager is an object of the heap and a      *)
(* provider holds a reference to one.  The provider writes its cache only  *)
(* in the refill of fetchPublicKeyByID; Reset is the cache manager's own   *)
(* method, called on the manager a provider holds.                         *)
(***************************************************************************)
\* the cache of a new cache manager: make(map[string]cacheEntry, 5)
EmptyCache == [id \in {} |-> NoEntry]

\* a constructor that hands out the first cache manager ever made
FirstCacheManager(ms) == 1

\* the reference NewSimpleCacheManager() returns, given the managers that
\* exist: a new object
NewSimpleCacheManager(ms) == Len(ms) + 1

\* the cache behind provider i
CacheOf(i) == managers[instances[i].cacheManager]

\* a constructor can run
CanConstruct == Len(instances) < MaxProviders

\* NewGoogleProvider(credentials, opts...): without options the provider
\* keeps the manager made in the constructor; with
\* WithCertificatesCacheManager(certs.NewSimpleCacheManager()) it holds the
\* caller's new manager and the constructor's one is garbage
NewGoogleProvider(withCacheManager) ==
  /\ CanConstruct
  /\ managers' = Append(managers, EmptyCache)
  /\ instances' = Append(instances,
                         [ptype |-> ProviderTypeGoogle,
                          cacheManager |-> NewSimpleCacheManager(managers)])
  /\ UNCHANGED <<serviceVars, cacheVars, used, manager,
                 observedVars>>

\* NewAppleProvider(cp)
NewAppleProvider ==
  /\ CanConstruct
  /\ managers' = Append(managers, EmptyCache)
  /\ instances' = Append(instances,
                         [ptype |-> ProviderTypeApple,
                          cacheManager |-> NewSimpleCacheManager(managers)])
  /\ UNCHANGED <<serviceVars, cacheVars, used, manager,
                 observedVars>>

\* fetchPublicKeyByID of provider i after a miss: the certs response
\* carries `keys` and the loop adds each of them to the provider's cache
ProviderRefill(i, keys, expires) ==
  /\ i \in DOMAIN instances
  /\ managers' =
       [managers EXCEPT ![instances[i].cacheManager] =
          AddAll(@, keys, RefillExpiry(instances[i].ptype, expires, now))]
  /\ used' = i
  /\ UNCHANGED <<serviceVars, cacheVars, instances, manager,
                 observedVars>>

\* Reset on the cache manager of provider i
ProviderReset(i) ==
  /\ i \in DOMAIN instances
  /\ managers' = [managers EXCEPT ![instances[i].cacheManager] = cacheReset(@)]
  /\ used' = i
  /\ UNCHANGED <<serviceVars, cacheVars, instances, manager,
                 observedVars>>

\* p.cacheManager.Get(id) of provider i
ProviderGet(i, id) ==
  /\ i \in DOMAIN instances
  /\ got' = [id |-> id, key |-> cacheGet(CacheOf(i), now, id)]
  /\ UNCHANGED <<serviceVars, now, cache, added, access, look, owner,
                 hostVars>>

(***************************************************************************)
(* Graceful shutdown (shutdown.Manager).  Wait blocks until a signal or    *)
(* the end of its context and then runs shutdown, which starts one         *)
(* goroutine per hook, from the last hook added to the first, and waits    *)
(* for all of them or for the timeout.  When a goroutine begins to run its *)
(* hook is the scheduler's choice.  After the wait shutdown closes the     *)
(* channel of errors, collects what it holds and calls os.Exit; until then *)
(* the goroutines of the hooks go on running.                              *)
(***************************************************************************)
\* AddHook(hook)
AddHook ==
  /\ manager.pc = "wait"
  /\ Len(manager.hooks) < MaxHooks
  /\ manager' = [manager EXCEPT !.hooks = Append(@, "added")]
  /\ UNCHANGED <<serviceVars, cacheVars, managers, instances, used,
                 observedVars>>

\* Wait receives a signal, or its context ends, and calls shutdown, which
\* copies the hooks and begins its loop at the last one
Shutdown ==
  /\ manager.pc = "wait"
  /\ manager' = [manager EXCEPT !.pc = "spawn", !.i = Len(manager.hooks)]
  /\ UNCHANGED <<serviceVars, cacheVars, managers, instances, used,
                 observedVars>>

\* one turn of the loop: go func(hooks[i], i)
Spawn(k) ==
  /\ manager.pc = "spawn"
  /\ manager.i = k
  /\ k >= 1
  /\ manager' = [manager EXCEPT !.hooks[k] = "spawned", !.i = k - 1]
  /\ UNCHANGED <<serviceVars, cacheVars, managers, instances, used,
                 observedVars>>

\* the loop is over: shutdown starts the goroutine of wg.Wait and selects
Select ==
  /\ manager.pc = "spawn"
  /\ manager.i = 0
  /\ manager' = [manager EXCEPT !.pc = "select"]
  /\ UNCHANGED <<serviceVars, cacheVars, managers, instances, used,
                 observedVars>>

\* the process runs: neither os.Exit nor a panic has ended it
Alive == manager.pc \notin {"exited", "panicked"}

\* close(errors) has been executed
Closed == manager.pc \in {"collect", "exited", "panicked"}

\* the goroutine of hook k is scheduled and calls hook(hookCtx)
HookBegins(k) ==
  /\ Alive
  /\ k \in DOMAIN manager.hooks
  /\ manager.hooks[k] = "spawned"
  /\ manager' = [manager EXCEPT !.hooks[k] = "running"]
  /\ UNCHANGED <<serviceVars, cacheVars, managers, instances, used,
                 observedVars>>

\* hook k returns, with an error or without; without an error its
\* goroutine ends (wg.Done)
HookEnds(k, ok) ==
  /\ Alive
  /\ k \in DOMAIN manager.hooks
  /\ manager.hooks[k] = "running"
  /\ manager' = [manager EXCEPT !.hooks[k] = IF ok THEN "done" ELSE "erred"]
  /\ UNCHANGED <<serviceVars, cacheVars, managers, instances, used,
                 observedVars>>

\* errors <- err in the goroutine of hook k, and its end (wg.Done).  The
\* channel has room for every hook's error, so the send never blocks; a send
\* on the closed channel panics and the runtime ends the process with
\* status 2
SendError(k) ==
  /\ Alive
  /\ k \in DOMAIN manager.hooks
  /\ manager.hooks[k] = "erred"
  /\ manager' = IF Closed
                THEN [manager EXCEPT !.hooks[k] = "panicked",
                                     !.pc = "panicked", !.code = 2]
                ELSE [manager EXCEPT !.hooks[k] = "failed"]
  /\ UNCHANGED <<serviceVars, cacheVars, managers, instances, used,
                 observedVars>>

\* the exit code: 1 when a hook has sent an error
ExitCode(hooks) ==
  IF \E k \in DOMAIN hooks : hooks[k] = "failed" THEN 1 ELSE 0

\* select takes <-done: every goroutine has called wg.Done
AllDone ==
  /\ manager.pc = "select"
  /\ \A k \in DOMAIN manager.hooks : manager.hooks[k] \in {"done", "failed"}
  /\ manager' = [manager EXCEPT !.pc = "close"]
  /\ UNCHANGED <<serviceVars, cacheVars, managers, instances, used,
                 observedVars>>

\* select takes <-ctx.Done(): the shutdown timeout is over
ShutdownTimeout ==
  /\ manager.pc = "select"
  /\ manager' = [manager EXCEPT !.pc = "close"]
  /\ UNCHANGED <<serviceVars, cacheVars, managers, instances, used,
                 observedVars>>

\* close(errors)
CloseErrors ==
  /\ manager.pc = "close"
  /\ manager' = [manager EXCEPT !.pc = "collect"]
  /\ UNCHANGED <<serviceVars, cacheVars, managers, instances, used,
                 observedVars>>

\* the loop over the closed channel collects the errors sent, and os.Exit
Exit ==
  /\ manager.pc = "collect"
  /\ manager' = [manager EXCEPT !.pc = "exited",
                                !.code = ExitCode(manager.hooks)]
  /\ UNCHANGED <<serviceVars, cacheVars, managers, instances, used,
                 observedVars>>

(***************************************************************************)
(* Cancelled transactions.  A TransactionCanceledException carries one     *)
(* reason per transact item.  The store reports a failed condition as      *)
(* ConditionalCheckFailed, and an item that another transaction works on   *)
(* as TransactionConflict, whatever the item's condition evaluates to.     *)
(***************************************************************************)
\* the reason codes the store gives to the item `put` over table tbl
ReasonCodesOf(tbl, put) ==
  IF AttributeNotExistsCond(tbl, put)
  THEN {"None", "TransactionConflict"}
  ELSE {"ConditionalCheckFailed", "TransactionConflict"}

\* the reason lists of a transaction that the store cancels
CancelledReasons(tbl, puts) ==
  {rs \in [1..Len(puts) -> {"None", "ConditionalCheckFailed",
                            "TransactionConflict"}] :
     /\ \A i \in 1..Len(puts) : rs[i] \in ReasonCodesOf(tbl, puts[i])
     /\ \E i \in 1..Len(puts) : rs[i] # "None"}

\* Create when TransactWriteItems returns a TransactionCanceledException
\* with the reasons rs; the generator has returned its n-th identifier
TransactCancelled(p, n, rs) ==
  /\ call[p].pc = "create"
  /\ nextID <= MaxIDs
  /\ n \in 1..nextID
  /\ LET c == call[p]
         puts == TransactItems(GenerateID(n), c.ptype, c.id, 0)
         r == CreateResult(GenerateID(n), [table |-> table, reasons |-> rs]) IN
     /\ rs \in CancelledReasons(table, puts)
     /\ call' = [call EXCEPT ![p] = AfterCreate(Logged(c, "Create", r.err), r)]
  /\ nextID' = nextID + 1
  /\ UNCHANGED <<registry, table, created, okReturned, factoryLog, cacheVars,
                 hostVars>>

(***************************************************************************)
(* Concurrent refills of one provider's cache.  Each verification runs on  *)
(* the goroutine of its call and goroutines run in parallel, so the loop   *)
(* of Adds of one refill can overlap the loop of another refill or a Get   *)
(* of another verification.  The map has no lock: the overlap is a data    *)
(* race, which the runtime ends with a fatal error or lets through, the    *)
(* accesses taking effect in one order or the other.                       *)
(***************************************************************************)
\* the process has been aborted by the runtime
Crashed == \E p \in Procs : access[p].at = "fatal"

\* the steps of a verification, in a process that runs
ParallelVerify(p, ptype) == ~Crashed /\ Verify(p, ptype, "kid1")
ParallelGet(p) == ~Crashed /\ LookupGet(p)
ParallelReread(p) == ~Crashed /\ Reread(p)
ParallelReturn(p) == ~Crashed /\ VerifyReturn(p)

\* http.Get(CertsURL) answers with `keys` and the loop of Adds begins
RefillBegin(p, keys, expires) ==
  /\ ~Crashed
  /\ look[p].pc = "fetch"
  /\ look' = [look EXCEPT ![p] =
                [@ EXCEPT !.pc = "adding", !.fetches = @ + 1, !.keys = keys]]
  /\ access' = [access EXCEPT ![p] =
                  [op |-> "Add", id |-> look[p].kid,
                   pubKey |-> PublishedKey(look[p].kid),
                   expiresAt |-> RefillExpiry(owner, expires, now),
                   at |-> "map"]]
  /\ UNCHANGED <<serviceVars, now, cache, added, got, owner, hostVars>>

\* the loop of Adds is over
RefillEnd(p) ==
  /\ ~Crashed
  /\ look[p].pc = "adding"
  /\ cache' = AddAll(cache, look[p].keys, access[p].expiresAt)
  /\ added' = AddedAll(added, look[p].keys, access[p].expiresAt)
  /\ look' = [look EXCEPT ![p].pc = "reread"]
  /\ access' = [access EXCEPT ![p] = NoAccess]
  /\ UNCHANGED <<serviceVars, now, got, owner, hostVars>>

\* goroutine p reads or writes the map while another goroutine writes it,
\* and the runtime aborts the process ("fatal error: concurrent map
\* writes", "concurrent map read and map write")
ConcurrentMapAccess(p) ==
  /\ ~Crashed
  /\ look[p].pc \in {"get", "adding", "reread"}
  /\ \E q \in Procs \ {p} : IsWrite(access[q])
  /\ access' = [q \in Procs |-> [access[q] EXCEPT !.at = "fatal"]]
  /\ UNCHANGED <<serviceVars, now, cache, added, got, look, owner, hostVars>>

(***************************************************************************)
(* Specifications                                                          *)
(***************************************************************************)
\* the service: callers invoke Authenticate.  The calls of a run fall into
\* one second of the wall clock: the creation time is stored and never read.
Next ==
  \/ \E r \in Registrations : FactoryAdd(r[1], r[2])
  \/ \E t \in ProviderTypes : FactoryRemove(t)
  \/ \E p \in Procs, t \in ProviderTypes :
       \E d \in AuthDatas(t), up \in UpstreamsOf(t) : Authenticate(p, t, d, up)
  \/ \E p \in Procs : ResolveIDByProvider(p)
  \/ \E p \in Procs : Create(p, 0)
  \/ \E p \in Procs : Return(p)

Spec == Init /\ [][Next]_vars

\* the repository alone: callers invoke ResolveIDByProvider and Create
RepoNext ==
  \/ \E p \in Procs, k \in RepoPairs : ResolveCall(p, k[1], k[2])
  \/ \E p \in Procs, k \in RepoPairs : CreateCall(p, k[1], k[2])
  \/ \E p \in Procs : ResolveIDByProvider(p)
  \/ \E p \in Procs, t \in Times : Create(p, t)
  \/ \E p \in Procs : Return(p)

RepoSpec == Init /\ [][RepoNext]_vars

\* the repository over a store whose requests can fail
FaultNext ==
  \/ RepoNext
  \/ \E p \in Procs : QueryFails(p)
  \/ \E p \in Procs : TransactFails(p)

FaultSpec == Init /\ [][FaultNext]_vars

\* the repository behind the IDGenerator port, with a generator that is free
\* to repeat itself
CollisionNext ==
  \/ \E p \in Procs, k \in RepoPairs : ResolveCall(p, k[1], k[2])
  \/ \E p \in Procs, k \in RepoPairs : CreateCall(p, k[1], k[2])
  \/ \E p \in Procs : ResolveIDByProvider(p)
  \/ \E p \in Procs, t \in Times, n \in 1..MaxIDs : CreateAnyID(p, t, n)
  \/ \E p \in Procs : Return(p)

CollisionSpec == Init /\ [][CollisionNext]_vars

\* the guest service and direct resolutions over a client whose Query can
\* fail or return what ResolveIDByProvider does not expect
IntegrityNext ==
  \/ FactoryAdd(ProviderTypeGuest, GuestProvider)
  \/ \E p \in Procs, up \in UpstreamsOf(ProviderTypeGuest) :
       Authenticate(p, ProviderTypeGuest, GuestData, up)
  \/ \E p \in Procs, k \in RepoPairs : ResolveCall(p, k[1], k[2])
  \/ \E p \in Procs : ResolveIDByProvider(p)
  \/ \E p \in Procs : QueryFails(p)
  \/ \E p \in Procs : UnmarshalFails(p)
  \/ \E p \in Procs : DuplicateAnswer(p)
  \/ \E p \in Procs : Create(p, 0)
  \/ \E p \in Procs : Return(p)

IntegritySpec == Init /\ [][IntegrityNext]_vars

\* one user of the cache: Add, Get and Reset in any order, the clock
\* advancing between them
CacheNext ==
  \/ \E id \in KeyIDs : CacheGet(id)
  \/ \E id \in KeyIDs, pub \in PublicKeys, e \in ExpiryTimes :
       CacheAdd(id, pub, e)
  \/ CacheReset
  \/ Tick

CacheSpec == Init /\ [][CacheNext]_vars

\* the goroutines of concurrent calls use the cache of one provider
CacheRaceNext ==
  \/ \E p \in Procs, id \in KeyIDs : BeginGet(p, id)
  \/ \E p \in Procs, id \in KeyIDs : BeginAdd(p, id, "pk1", MaxTime + 1)
  \/ \E p \in Procs : BeginReset(p)
  \/ \E p \in Procs : EndAccess(p)
  \/ \E p \in Procs : RuntimeFatal(p)

CacheRaceSpec == Init /\ [][CacheRaceNext]_vars

\* the registry on its own
RegistryNext ==
  \/ \E t \in ProviderTypes, provider \in Providers : RegistryAdd(t, provider)
  \/ \E t \in ProviderTypes : RegistryGet(t)
  \/ \E t \in ProviderTypes : RegistryRemove(t)

RegistrySpec == Init /\ [][RegistryNext]_vars

\* concurrent token verifications of one provider, the clock advancing
KeysNext ==
  \/ \E p \in Procs, t \in KeyProviderTypes, kid \in KeyIDs : Verify(p, t, kid)
  \/ \E p \in Procs : LookupGet(p)
  \/ \E p \in Procs : FetchFails(p)
  \/ \E p \in Procs, keys \in Responses, e \in HeaderTimes :
       Refill(p, keys, e)
  \/ \E p \in Procs : Reread(p)
  \/ \E p \in Procs : VerifyReturn(p)
  \/ Tick

KeysSpec == Init /\ [][KeysNext]_vars

(***************************************************************************)
(* The health Checker (pkg/health): AddCheck and RemoveCheck change the    *)
(* checks under the write lock; Check copies them under the read lock,     *)
(* runs one goroutine per copied check and waits for all of them.  The     *)
(* goroutines write the response under the call's own mutex.               *)
(***************************************************************************)
CheckNames == {"db", "cache"}
CheckFuncs == {"ping", "probe"}
\* what a CheckFunc can return
CheckErrors == {nil, ErrorsNew("down")}

\* the other variables of the model
notHealth == <<serviceVars, cacheVars, managers, instances, used, manager,
               history>>

\* Checker.AddCheck
AddCheck(name, check) ==
  /\ health' = [health EXCEPT !.checks = MapSet(@, name, check)]
  /\ UNCHANGED notHealth

\* Checker.RemoveCheck
RemoveCheck(name) ==
  /\ health' = [health EXCEPT !.checks = MapDelete(@, name)]
  /\ UNCHANGED notHealth

\* Checker.Check up to wg.Wait: the copy of the checks under the read lock,
\* the healthy response without entries, and one goroutine per copied check
Check ==
  /\ health.pc \in {"idle", "returned"}
  /\ health' = [health EXCEPT
       !.pc = "running",
       !.snapshot = health.checks,
       !.g = [n \in DOMAIN health.checks |-> [pc |-> "ready", err |-> nil]],
       !.response = [status |-> StatusHealthy, checks |-> [n \in {} |-> ""]]]
  /\ UNCHANGED notHealth

\* a goroutine: checkFunc(ctx) returns err
CheckFuncReturns(name, err) ==
  /\ health.pc = "running"
  /\ name \in DOMAIN health.g
  /\ health.g[name].pc = "ready"
  /\ health' = [health EXCEPT
       !.g[name] = [pc |-> IF err # nil THEN "mark" ELSE "store",
                    err |-> err]]
  /\ UNCHANGED notHealth

\* a goroutine whose check failed: response.Status = StatusUnhealthy
MarkUnhealthy(name) ==
  /\ name \in DOMAIN health.g
  /\ health.g[name].pc = "mark"
  /\ health' = [health EXCEPT !.g[name].pc = "store",
                              !.response.status = StatusUnhealthy]
  /\ UNCHANGED notHealth

\* a goroutine: response.Checks[name] = check, and the deferred wg.Done()
StoreCheck(name) ==
  /\ name \in DOMAIN health.g
  /\ health.g[name].pc = "store"
  /\ health' = [health EXCEPT
       !.g[name].pc = "done",
       !.response.checks =
          MapSet(@, name,
                 IF health.g[name].err # nil THEN StatusUnhealthy
                 ELSE StatusHealthy)]
  /\ UNCHANGED notHealth

\* a Check that returns the response without waiting for its goroutines
CheckReturnWithoutWait ==
  /\ health.pc = "running"
  /\ health' = [health EXCEPT !.pc = "returned"]
  /\ UNCHANGED notHealth

\* wg.Wait() has seen every goroutine's Done: Check returns the response
CheckReturn ==
  /\ health.pc = "running"
  /\ \A n \in DOMAIN health.g : health.g[n].pc = "done"
  /\ health' = [health EXCEPT !.pc = "returned"]
  /\ UNCHANGED notHealth

HealthNext ==
  \/ \E name \in CheckNames, check \in CheckFuncs : AddCheck(name, check)
  \/ \E name \in CheckNames : RemoveCheck(name)
  \/ Check
  \/ \E name \in CheckNames, err \in CheckErrors : CheckFuncReturns(name, err)
  \/ \E name \in CheckNames : MarkUnhealthy(name)
  \/ \E name \in CheckNames : StoreCheck(name)
  \/ CheckReturn

HealthSpec == Init /\ [][HealthNext]_vars

\* verifications of the Google provider, with every answer its certs
\* endpoint can give
HeaderNext ==
  \/ \E p \in Procs, kid \in KeyIDs : Verify(p, ProviderTypeGoogle, kid)
  \/ \E p \in Procs : LookupGet(p)
  \/ \E p \in Procs : FetchFails(p)
  \/ \E p \in Procs : ExpiresUnparseable(p)
  \/ \E p \in Procs, keys \in Responses, e \in HeaderTimes :
       Refill(p, keys, e)
  \/ \E p \in Procs : Reread(p)
  \/ \E p \in Procs : VerifyReturn(p)
  \/ Tick

HeaderSpec == Init /\ [][HeaderNext]_vars

\* verifications of the Apple provider, with every JWKS answer its certs
\* endpoint can give
JWKSNext ==
  \/ \E p \in Procs, kid \in KeyIDs : AppleVerify(p, kid)
  \/ \E p \in Procs : LookupGet(p)
  \/ \E p \in Procs : FetchFails(p)
  \/ \E p \in Procs, jwks \in JWKSResponses : AppleRefill(p, jwks)
  \/ \E p \in Procs : Reread(p)
  \/ \E p \in Procs : VerifyReturn(p)
  \/ Tick

JWKSSpec == Init /\ [][JWKSNext]_vars

\* one client after another calls Authenticate of one provider
ProviderNext ==
  \/ \E p \in Procs, t \in KeyProviderTypes :
       \E data \in ProviderDatas(t) : ProviderCall(p, t, data)
  \/ \E p \in Procs, token \in Tokens : Exchange(p, token)
  \/ \E p \in Procs : ExchangeFails(p)
  \/ \E p \in Procs : LookupGet(p)
  \/ \E p \in Procs : FetchFails(p)
  \/ \E p \in Procs, keys \in Responses :
       Refill(p, keys, (Unix(MaxTime) + 1) * TicksPerSecond)
  \/ \E p \in Procs : Reread(p)
  \/ \E p \in Procs : VerifyReturn(p)

ProviderSpec == Init /\ [][ProviderNext]_vars

\* guest and Google clients call the service
ClientNext ==
  \/ \E r \in {<<ProviderTypeGuest, GuestProvider>>,
               <<ProviderTypeGoogle, GoogleProvider>>} : FactoryAdd(r[1], r[2])
  \/ \E p \in Procs, data \in GuestDatas :
       AuthenticateToken(p, ProviderTypeGuest, data, NoToken)
  \/ \E p \in Procs, n \in {"n", "n2"} :
       AuthenticateToken(p, ProviderTypeGoogle,
                         [token |-> "code", nonce |-> "n"],
                         [ValidToken("kid1") EXCEPT !.nonce = n])
  \/ \E p \in Procs : ResolveIDByProvider(p)
  \/ \E p \in Procs : Create(p, 0)
  \/ \E p \in Procs : Return(p)

ClientSpec == Init /\ [][ClientNext]_vars

\* Google clients call the service and may cancel their calls
CancelNext ==
  \/ FactoryAdd(ProviderTypeGoogle, GoogleProvider)
  \/ \E p \in Procs : AuthenticateBegin(p)
  \/ \E p \in Procs : HTTPAnswers(p)
  \/ \E p \in Procs : ProviderRuns(p)
  \/ \E p \in Procs : ProviderReturns(p)
  \/ \E p \in Procs : StoreAnswers(p)
  \/ \E p \in Procs : StoreAborts(p)
  \/ \E p \in Procs : Cancel(p)
  \/ \E p \in Procs : Return(p)

CancelSpec == Init /\ [][CancelNext]_vars

\* the code of a call keeps running, and a client that has the context
\* gives up once it is cancelled; an answer of a remote party may never come
CancelFairness ==
  \A p \in Procs :
    /\ WF_vars(ProviderRuns(p))
    /\ WF_vars(ProviderReturns(p))
    /\ WF_vars(StoreAborts(p))

FairCancelSpec == CancelSpec /\ CancelFairness

\* providers are constructed and use their cache managers
OwnershipNext ==
  \/ \E o \in BOOLEAN : NewGoogleProvider(o)
  \/ NewAppleProvider
  \/ \E i \in 1..MaxProviders, keys \in Responses, e \in HeaderTimes :
       ProviderRefill(i, keys, e)
  \/ \E i \in 1..MaxProviders : ProviderReset(i)
  \/ \E i \in 1..MaxProviders, id \in KeyIDs : ProviderGet(i, id)

OwnershipSpec == Init /\ [][OwnershipNext]_vars

\* hooks are added, then the process is told to stop
ShutdownNext ==
  \/ AddHook
  \/ Shutdown
  \/ \E k \in 1..MaxHooks : Spawn(k)
  \/ Select
  \/ \E k \in 1..MaxHooks : HookBegins(k)
  \/ \E k \in 1..MaxHooks, ok \in BOOLEAN : HookEnds(k, ok)
  \/ \E k \in 1..MaxHooks : SendError(k)
  \/ AllDone
  \/ ShutdownTimeout
  \/ CloseErrors
  \/ Exit

ShutdownSpec == Init /\ [][ShutdownNext]_vars

\* the timer of the shutdown context fires and shutdown itself keeps
\* running; when and whether the hooks run and return is not assumed
FairShutdownSpec ==
  /\ ShutdownSpec
  /\ WF_vars(\E k \in 1..MaxHooks : Spawn(k))
  /\ WF_vars(Select)
  /\ WF_vars(AllDone \/ ShutdownTimeout)
  /\ WF_vars(CloseErrors)
  /\ WF_vars(Exit)

\* the repository over a store that cancels transactions for any reason and
\* an id generator that can repeat itself
ReasonsNext ==
  \/ \E p \in Procs, k \in RepoPairs : CreateCall(p, k[1], k[2])
  \/ \E p \in Procs, n \in 1..MaxIDs : CreateAnyID(p, 0, n)
  \/ \E p \in Procs, n \in 1..MaxIDs,
        rs \in [1..2 -> {"None", "ConditionalCheckFailed",
                         "TransactionConflict"}] :
       TransactCancelled(p, n, rs)
  \/ \E p \in Procs : TransactFails(p)
  \/ \E p \in Procs : Return(p)

ReasonsSpec == Init /\ [][ReasonsNext]_vars

\* the certs response of the endpoint while it publishes both keys, with an
\* Expires header ahead of every instant of the clock
CertsKeys == {"kid1", "kid2"}
CertsExpires == (Unix(MaxTime) + 1) * TicksPerSecond

\* verifications of tokens of one key id on one provider, in parallel, over
\* an endpoint that answers every fetch with the same response
RefillRaceNext ==
  \/ \E p \in Procs, t \in KeyProviderTypes : ParallelVerify(p, t)
  \/ \E p \in Procs : ParallelGet(p)
  \/ \E p \in Procs : RefillBegin(p, CertsKeys, CertsExpires)
  \/ \E p \in Procs : RefillEnd(p)
  \/ \E p \in Procs : ConcurrentMapAccess(p)
  \/ \E p \in Procs : ParallelReread(p)
  \/ \E p \in Procs : ParallelReturn(p)
  \/ Tick

RefillRaceSpec == Init /\ [][RefillRaceNext]_vars

\* the service with an observer of what its calls return
HistoryNext ==
  \/ \E r \in Registrations : FactoryAdd(r[1], r[2])
  \/ \E p \in Procs, t \in ProviderTypes :
       \E d \in AuthDatas(t), up \in UpstreamsOf(t) : Authenticate(p, t, d, up)
  \/ \E p \in Procs : ResolveIDByProvider(p)
  \/ \E p \in Procs : Create(p, 0)
  \/ \E p \in Procs : ReturnObserved(p)

HistorySpec == Init /\ [][HistoryNext]_vars

\* the guest service over a store whose requests can fail and whose Query
\* can return what ResolveIDByProvider does not expect
ServiceFaultNext ==
  \/ FactoryAdd(ProviderTypeGuest, GuestProvider)
  \/ \E p \in Procs, up \in UpstreamsOf(ProviderTypeGuest) :
       Authenticate(p, ProviderTypeGuest, GuestData, up)
  \/ \E p \in Procs : ResolveIDByProvider(p)
  \/ \E p \in Procs : QueryFails(p)
  \/ \E p \in Procs : UnmarshalFails(p)
  \/ \E p \in Procs : DuplicateAnswer(p)
  \/ \E p \in Procs : Create(p, 0)
  \/ \E p \in Procs : TransactFails(p)
  \/ \E p \in Procs : Return(p)

ServiceFaultSpec == Init /\ [][ServiceFaultNext]_vars

(***************************************************************************)
(* Properties                                                              *)
(***************************************************************************)
\* the link (identity) records of the pair with identity key k
Links(k) == Query(table, k, AccountIdentitySKName)
\* the link records whose attributes name the pair (providerType, providerID)
LinksOf(providerType, providerID) ==
  {it \in table : /\ it.SK = AccountIdentitySKName
                  /\ it.ProviderType = providerType
                  /\ it.ProviderID = providerID}
\* the AccountIDs Create has returned for the pair with identity key k
CreatedFor(k) == MapGet(created, k, << >>)
\* the record data an item carries
DataOf(it) ==
  DDBAccountProviderRecordData(it.AccountID, it.ProviderType, it.ProviderID,
                               it.DateCreated)
\* no item of another pair carries AccountID a
Fresh(a, k) ==
  /\ \A it \in table :
       it.AccountID = a => AccountProviderSK(it.ProviderType, it.ProviderID) = k
  /\ \A k2 \in DOMAIN created \ {k} : \A i \in 1..Len(created[k2]) :
       created[k2][i] # a

\* call p makes its ResolveIDByProvider / Create request in this step
ResolveStep(p) == call[p].pc = "resolve" /\ call'[p].pc # "resolve"
CreateStep(p) == call[p].pc = "create" /\ call'[p].pc # "create"
\* call p returns to its caller in this step
ReturnStep(p) == call[p].pc = "ret" /\ call'[p].pc # "ret"

AtRet(p, op) == call[p].pc = "ret" /\ call[p].op = op

\* C1: of the Create calls for one pair on a store that had no link for it,
\* exactly one returns a nil error and a fresh AccountID, every other one
\* returns the empty AccountID and an error matching
\* ErrProviderIDOrAccountAlreadyExists, and a ResolveIDByProvider made after
\* the successful Create returns the AccountID of that Create.
C1_ExactlyOneCreateSucceeds ==
  /\ [](\A k \in DOMAIN created : Len(created[k]) = 1)
  /\ [](\A p \in Procs :
          AtRet(p, "Create") =>
            LET c == call[p]
                ok == CreatedFor(KeyOf(c)) IN
            /\ Len(ok) = 1
            /\ IF c.err = nil
               THEN /\ c.accountID = ok[1]
                    /\ c.accountID # EmptyAccountID
                    /\ Fresh(c.accountID, KeyOf(c))
               ELSE /\ c.accountID = EmptyAccountID
                    /\ ErrorsIs(c.err, ErrProviderIDOrAccountAlreadyExists))
  /\ [][\A p \in Procs :
          (ResolveStep(p) /\ KeyOf(call[p]) \in DOMAIN created) =>
            /\ call'[p].err = nil
            /\ call'[p].accountID = created[KeyOf(call[p])][1]]_vars

\* two Create calls for the same pair are in flight, one has succeeded and
\* the other has failed
C1_Witness ==
  \E p, q \in Procs :
    /\ p # q /\ AtRet(p, "Create") /\ AtRet(q, "Create")
    /\ KeyOf(call[p]) = KeyOf(call[q])
    /\ call[p].err = nil /\ call[q].err # nil

\* C2: the store holds at most one link record per (ProviderType,
\* ExternalSubjectID), and the AccountID of a link never changes once the
\* link exists.
C2_OneLinkPerPairForever ==
  /\ [](\A t \in ProviderTypes, id \in ExternalIDs :
          Cardinality(LinksOf(t, id)) <= 1)
  /\ [][\A it \in table :
          it.SK = AccountIdentitySKName =>
            {x.AccountID : x \in LinksOf(it.ProviderType, it.ProviderID)'}
              = {it.AccountID}]_vars

\* an Authenticate has lost the creation race: the pair is linked and its
\* own Create was rejected
C2_Witness ==
  \E p \in Procs :
    /\ AtRet(p, "Authenticate") /\ ~call[p].out
    /\ Invoked(call[p].log, "Create")
    /\ LinksOf(call[p].ptype, call[p].id) # {}

\* C3: the identity record of a pair with AccountID A is in the table if and
\* only if the account record keyed by A for that pair is, also after a
\* Create that was rejected or whose request failed.
C3_AllOrNothing ==
  \A it \in table :
    IF it.SK = AccountIdentitySKName
    THEN /\ it = identityRecord(DataOf(it))
         /\ accountRecord(DataOf(it)) \in table
    ELSE /\ it = accountRecord(DataOf(it))
         /\ identityRecord(DataOf(it)) \in table

\* a Create whose request failed although the store applied it
C3_Witness ==
  \E p \in Procs :
    /\ AtRet(p, "Create") /\ Outcome(call[p].err) = "error"
    /\ Links(KeyOf(call[p])) # {}
    /\ KeyOf(call[p]) \notin DOMAIN created

\* C4 as stated: the first Authenticate that returns successfully for a pair
\* has IsNew = true, and every successful Authenticate that returns after it
\* has IsNew = false.
C4_FirstReturnIsNew ==
  [][\A p \in Procs :
       (ReturnStep(p) /\ call[p].op = "Authenticate" /\ call[p].out) =>
         (call[p].isNew <=> KeyOf(call[p]) \notin okReturned)]_vars

\* C4 amended: the Authenticate whose Create commits the pair returns
\* IsNew = true with the created AccountID and no other does, every
\* successful Authenticate for the pair returns that AccountID, and every
\* Authenticate that resolves the pair after a successful Authenticate for it
\* has returned succeeds with IsNew = false.
C4_NewAccountFlagging ==
  /\ [](\A p \in Procs :
          (AtRet(p, "Authenticate") /\ call[p].out) =>
            /\ CreatedFor(KeyOf(call[p])) = << call[p].accountID >>
            /\ call[p].accountID # EmptyAccountID
            /\ call[p].isNew <=> Invoked(call[p].log, "Create"))
  /\ [][\A p \in Procs :
          (CreateStep(p) /\ call[p].op = "Authenticate" /\ created' # created) =>
            /\ call'[p].out /\ call'[p].isNew
            /\ << call'[p].accountID >> = created'[KeyOf(call[p])]]_vars
  /\ [][\A p \in Procs :
          (/\ ResolveStep(p) /\ call[p].op = "Authenticate"
           /\ KeyOf(call[p]) \in okReturned) =>
            /\ call'[p].pc = "ret" /\ call'[p].out /\ ~call'[p].isNew
            /\ << call'[p].accountID >> = created[KeyOf(call[p])]]_vars

\* an Authenticate has found the account of a pair for which an earlier
\* Authenticate returned
C4_Witness ==
  \E p \in Procs :
    /\ AtRet(p, "Authenticate") /\ call[p].out /\ ~call[p].isNew
    /\ KeyOf(call[p]) \in okReturned

\* C5: an Authenticate whose Create was rejected because the pair was linked
\* in the meantime returns no output and an error for which
\* errors.Is(err, ErrProviderIDOrAccountAlreadyExists) holds, below the
\* wrapping of the orchestrator and of the repository.
C5_RaceLoserSeesAlreadyExists ==
  \A p \in Procs :
    (AtRet(p, "Authenticate") /\ Invoked(call[p].log, "Create")) =>
      LET c == call[p] IN
      IF CreatedFor(KeyOf(c)) = << c.accountID >>
      THEN c.out /\ c.err = nil
      ELSE /\ ~c.out /\ c.accountID = EmptyAccountID
           /\ ErrorsIs(c.err, ErrProviderIDOrAccountAlreadyExists)
           /\ Len(c.err) = 3
           /\ c.err[1].msg = "failed to create account"
           /\ c.err[2].msg = "failed to execute transaction when creating account"

\* two Authenticate calls for the same pair both invoked Create; one won
C5_Witness ==
  \E p, q \in Procs :
    /\ p # q /\ AtRet(p, "Authenticate") /\ AtRet(q, "Authenticate")
    /\ KeyOf(call[p]) = KeyOf(call[q])
    /\ Invoked(call[p].log, "Create") /\ Invoked(call[q].log, "Create")
    /\ call[p].out /\ ~call[q].out

\* C6: Authenticate with an unregistered ProviderType returns a nil output
\* and exactly ErrProviderNotFound, after the registry lookup alone: no
\* provider call, no ResolveIDByProvider, no Create, the store unchanged.
C6_UnregisteredProvider ==
  /\ [](\A p \in Procs :
          (AtRet(p, "Authenticate") /\ call[p].ptype \notin DOMAIN registry) =>
            /\ ~call[p].out /\ call[p].accountID = EmptyAccountID
            /\ call[p].err = ErrProviderNotFound
            /\ call[p].log = << <<"Get", "error">> >>)
  /\ [][\A p \in Procs :
          (/\ call[p].pc = "idle" /\ call'[p].op = "Authenticate"
           /\ call'[p].ptype \notin DOMAIN registry) =>
            /\ call'[p].pc = "ret"
            /\ table' = table /\ created' = created /\ nextID' = nextID]_vars

\* an Authenticate for an unregistered type has ended while the store holds
\* accounts
C6_Witness ==
  \E p \in Procs :
    /\ AtRet(p, "Authenticate") /\ call[p].ptype \notin DOMAIN registry
    /\ table # {}

\* C7: when the provider's Authenticate returns an error, the orchestrator
\* returns that very error and a nil output, and invokes neither
\* ResolveIDByProvider nor Create; the store is unchanged.
C7_ProviderErrorVerbatim ==
  /\ [](\A p \in Procs :
          (call[p].op = "Authenticate" /\ call[p].perr # nil) =>
            /\ call[p].pc = "ret" /\ ~call[p].out
            /\ call[p].accountID = EmptyAccountID
            /\ call[p].err = call[p].perr
            /\ call[p].log = << <<"Get", "ok">>, <<"Authenticate", "error">> >>)
  /\ [][\A p \in Procs :
          (call[p].pc = "idle" /\ call'[p].perr # nil) =>
            table' = table /\ created' = created /\ nextID' = nextID]_vars

\* an Authenticate has ended on the Apple provider's subject mismatch while
\* the store holds accounts
C7_Witness ==
  \E p \in Procs :
    /\ AtRet(p, "Authenticate")
    /\ call[p].err = ErrorsNew("userID mismatch")
    /\ table # {}

\* C8: within one Authenticate, ResolveIDByProvider is invoked only after the
\* provider's Authenticate returned successfully, Create only after
\* ResolveIDByProvider returned ErrAccountNotFound, and never after it found
\* an account.
C8_StepOrder ==
  \A p \in Procs :
    call[p].op = "Authenticate" =>
      LET c == call[p]
          l == c.log IN
      /\ \A i \in Invocations(l, "Resolve") :
           i = 3 /\ l[1] = <<"Get", "ok">> /\ l[2] = <<"Authenticate", "ok">>
      /\ \A i \in Invocations(l, "Create") :
           i = 4 /\ l[3] = <<"Resolve", "notfound">>
      /\ c.pc = "resolve" => l[Len(l)] = <<"Authenticate", "ok">>
      /\ c.pc = "create" => l[Len(l)] = <<"Resolve", "notfound">>
      /\ (\E i \in 1..Len(l) : l[i] = <<"Resolve", "ok">>) =>
           (c.pc = "ret" /\ ~Invoked(l, "Create"))

\* one Authenticate has gone through all four steps while another one has
\* found the account
C8_Witness ==
  \E p, q \in Procs :
    /\ AtRet(p, "Authenticate") /\ Len(call[p].log) = 4
    /\ AtRet(q, "Authenticate")
    /\ call[q].log[Len(call[q].log)] = <<"Resolve", "ok">>

\* C9: once Create has succeeded for a pair, every ResolveIDByProvider for
\* the pair returns the AccountID that Create returned, and
\* ResolveIDByProvider does not modify the store.
C9_ResolveIsStable ==
  [][\A p \in Procs :
       ResolveStep(p) =>
         /\ table' = table
         /\ KeyOf(call[p]) \in DOMAIN created =>
              /\ call'[p].err = nil
              /\ << call'[p].accountID >> = created[KeyOf(call[p])]]_vars

\* two ResolveIDByProvider calls have returned the created AccountID of a
\* pair while a second pair has an account too
C9_Witness ==
  \E p, q \in Procs :
    /\ p # q /\ AtRet(p, "Resolve") /\ AtRet(q, "Resolve")
    /\ KeyOf(call[p]) = KeyOf(call[q])
    /\ call[p].accountID # EmptyAccountID
    /\ call[p].accountID = call[q].accountID
    /\ Cardinality(DOMAIN created) = 2

\* C10: Create for a pair that has a link record returns the empty AccountID
\* and an error matching ErrProviderIDOrAccountAlreadyExists, and leaves the
\* table as it was.
C10_CreateOnExistingLink ==
  [][\A p \in Procs :
       (CreateStep(p) /\ Links(KeyOf(call[p])) # {}) =>
         /\ call'[p].accountID = EmptyAccountID
         /\ ErrorsIs(call'[p].err, ErrProviderIDOrAccountAlreadyExists)
         /\ table' = table]_vars

\* a Create for a linked pair has been rejected
C10_Witness ==
  \E p \in Procs :
    /\ AtRet(p, "Create") /\ call[p].accountID = EmptyAccountID
    /\ ErrorsIs(call[p].err, ErrProviderIDOrAccountAlreadyExists)
    /\ Links(KeyOf(call[p])) # {}
    /\ Cardinality(table) = 2

\* C11: a Create whose generated AccountID is in use by the account of
\* another pair writes nothing, and no two link records of different pairs
\* carry the same AccountID.
C11_CollisionRejected ==
  /\ [][\A it \in table' \ table :
          \A old \in table : old.AccountID # it.AccountID]_vars
  /\ [](\A a, b \in table :
          (/\ a.SK = AccountIdentitySKName /\ b.SK = AccountIdentitySKName
           /\ a.AccountID = b.AccountID) => a = b)

\* C12: a direct ResolveIDByProvider returns ErrAccountNotFound only when
\* the pair has no link record, and always when it has none and the Query
\* itself did not fail; whenever it returns an error (not found, failed
\* Query, several items, undecodable item) the AccountID is empty.
C12_NotFoundIffNoLink ==
  [][\A p \in Procs :
       (ResolveStep(p) /\ call[p].op = "Resolve") =>
         LET e == call'[p].err IN
         /\ ErrorsIs(e, ErrAccountNotFound) => Links(KeyOf(call[p])) = {}
         /\ Links(KeyOf(call[p])) = {} =>
              \/ e = ErrAccountNotFound
              \/ e[1].msg = "failed to query DynamoDB"
         /\ e # nil => call'[p].accountID = EmptyAccountID
         /\ e = nil => /\ call'[p].accountID # EmptyAccountID
                       /\ \E it \in Links(KeyOf(call[p])) :
                            it.AccountID = call'[p].accountID]_vars

\* direct resolutions have ended in each of the four errors
C12_Witness ==
  \E p, q \in Procs :
    /\ AtRet(p, "Resolve") /\ AtRet(q, "Resolve")
    /\ call[p].accountID = EmptyAccountID /\ call[q].accountID = EmptyAccountID
    /\ call[p].err[1].msg \in {"failed to unmarshal DynamoDB items",
                               "unexpected multiple accounts found"}
    /\ call[q].err \in {ErrAccountNotFound,
                        Wrap("failed to query DynamoDB",
                             ErrorsNew("request failed"))}

\* C13: when Query returns more than one item for the key of the pair,
\* ResolveIDByProvider returns an error that is not ErrAccountNotFound and
\* the empty AccountID, and an Authenticate that made the call ends without
\* output and without invoking Create.
C13_MultipleMatchesFail ==
  [][\A p \in Procs :
       DuplicateAnswer(p) =>
         LET d == call'[p] IN
         /\ d.pc = "ret" /\ ~d.out /\ d.accountID = EmptyAccountID
         /\ d.err # nil /\ ~ErrorsIs(d.err, ErrAccountNotFound)
         /\ ~Invoked(d.log, "Create")
         /\ table' = table /\ nextID' = nextID /\ created' = created]_vars

\* an Authenticate has ended on a Query response of two items
C13_Witness ==
  \E p \in Procs :
    /\ AtRet(p, "Authenticate") /\ ~call[p].out
    /\ call[p].err = Wrap("failed to resolve account ID",
                          ErrorsNew("unexpected multiple accounts found"))
    /\ call[p].log = << <<"Get", "ok">>, <<"Authenticate", "ok">>,
                        <<"Resolve", "error">> >>

\* C14: an Authenticate invokes the registry lookup, the provider,
\* ResolveIDByProvider and Create at most once each, Create is its last
\* invocation, and once a call has its result it does nothing but return.
C14_NoRetry ==
  /\ [](\A p \in Procs :
          call[p].op = "Authenticate" =>
            LET l == call[p].log IN
            /\ \A name \in {"Get", "Authenticate", "Resolve", "Create"} :
                 Cardinality(Invocations(l, name)) <= 1
            /\ Invoked(l, "Create") =>
                 (l[Len(l)][1] = "Create" /\ call[p].pc = "ret"))
  /\ [][\A p \in Procs :
          call[p].pc = "ret" => call'[p] \in {call[p], IdleCall}]_vars

\* an Authenticate whose Create was rejected is about to return
C14_Witness ==
  \E p \in Procs :
    /\ AtRet(p, "Authenticate") /\ ~call[p].out
    /\ Len(call[p].log) = 4
    /\ call[p].log[4] = <<"Create", "exists">>

\* what Get(id) is to return: the key of the most recent Add of id since
\* the last Reset while the clock is before the expiry that Add was given
Expected(id) ==
  IF id \in DOMAIN added /\ added[id].live /\ now < added[id].expiresAt
  THEN added[id].pubKey ELSE NoKey

\* C15: for every key id and every sequence of Add, Reset and Get with an
\* advancing clock, Get(k) returns the key of the most recent Add(k, ..)
\* since the last Reset if the current time is before that Add's expiry,
\* and nil otherwise
C15_GetReturnsLatestUnexpired ==
  [][\A id \in KeyIDs : CacheGet(id) => got'.key = Expected(id)]_vars

\* C16: after Reset, Get returns nil for every key id, whatever entries
\* were present before, until a later Add repopulates that key id
C16_ResetEmpties ==
  [][/\ CacheReset => \A id \in KeyIDs : cacheGet(cache', now', id) = NoKey
     /\ \A id \in KeyIDs :
          CacheGet(id) /\ (id \notin DOMAIN added \/ ~added[id].live)
            => got'.key = NoKey]_vars

\* a Get after a Reset returned nil for a key id whose entry the Reset
\* removed before it expired
C16_Witness ==
  /\ got.id \in DOMAIN added
  /\ ~added[got.id].live
  /\ Unix(now) < Unix(added[got.id].expiresAt)
  /\ got.key = NoKey

\* C17: the cache is safe for concurrent use: Get, Add and Reset are
\* mutually exclusive on the underlying map, so that in no interleaving a
\* write of the map overlaps another read or write of it
C17_MapAccessExclusive ==
  \A p \in Procs : \A q \in Procs \ {p} :
    ~(IsWrite(access[p]) /\ (IsWrite(access[q]) \/ IsRead(access[q])))

\* the provider registered under t after the first n calls of the log: that
\* of the most recent Add(t, ..) if no Remove(t) followed it, "" otherwise
RECURSIVE Registered(_, _, _)
Registered(log, n, t) ==
  IF n = 0 THEN ""
  ELSE IF log[n].ptype = t /\ log[n].op = "Add" THEN log[n].provider
  ELSE IF log[n].ptype = t /\ log[n].op = "Remove" THEN ""
  ELSE Registered(log, n - 1, t)

\* C18: Get(t) returns the provider of the most recent Add(t, ..) if no
\* Remove(t) has followed it, and ProviderNotFound otherwise; Add and
\* Remove always return nil (Remove of an unregistered type is a no-op) and
\* never affect another type
C18_RegistryFollowsCalls ==
  /\ \A i \in 1..Len(factoryLog) :
       LET e == factoryLog[i]
           r == Registered(factoryLog, i - 1, e.ptype) IN
         IF e.op = "Get"
         THEN IF r # "" THEN e.provider = r /\ e.err = nil
              ELSE e.provider = "" /\ ErrorsIs(e.err, ErrProviderNotFound)
         ELSE e.err = nil
  /\ \A t \in ProviderTypes :
       LET r == Registered(factoryLog, Len(factoryLog), t) IN
         IF r # "" THEN t \in DOMAIN registry /\ registry[t] = r
         ELSE t \notin DOMAIN registry

\* after a Remove of an unregistered type, a Get returned the second of
\* two providers added under another type
C18_Witness ==
  /\ Len(factoryLog) = 4
  /\ factoryLog[1].op = "Remove"
  /\ factoryLog[2].op = "Add"
  /\ factoryLog[3].op = "Add"
  /\ factoryLog[4].op = "Get"
  /\ factoryLog[1].ptype # factoryLog[2].ptype
  /\ factoryLog[3].ptype = factoryLog[2].ptype
  /\ factoryLog[3].provider # factoryLog[2].provider
  /\ factoryLog[4].ptype = factoryLog[2].ptype
  /\ factoryLog[4].provider = factoryLog[3].provider

\* C19: on a verification-time cache miss for key id k the provider
\* performs one fetch of the certs endpoint, adds every key of the response
\* to its cache and only then re-reads k; if k is among the published keys
\* the re-read returns it and verification proceeds with that key, and
\* after the refill every key of the response is retrievable from the cache
\* until its expiry
C19_RefillThenFound ==
  /\ [](\A p \in Procs :
          look[p].pc = "reread" =>
            \A id \in look[p].keys :
              /\ id \in DOMAIN added
              /\ now < added[id].expiresAt
                   => cacheGet(cache, now, id) = PublishedKey(id))
  /\ [][\A p \in Procs :
          /\ look[p].pc = "fetch" /\ look'[p].pc = "reread"
               => look'[p].fetches = 1 /\ look'[p].keys \subseteq DOMAIN cache'
          /\ Reread(p) /\ look[p].kid \in look[p].keys
               => /\ look'[p].key = PublishedKey(look[p].kid)
                  /\ look'[p].err = nil
                  /\ look'[p].out.err = nil]_vars

\* C20: if the token's key id is still absent from the cache after the
\* refill, verification fails with an error, no second fetch is attempted,
\* and the provider's Authenticate returns an error and no subject id
C20_SecondMissFails ==
  /\ [](\A p \in Procs : look[p].fetches <= 1)
  /\ [][\A p \in Procs :
          Reread(p) /\ cacheGet(cache, now, look[p].kid) = NoKey
            => /\ look'[p].pc = "done"
               /\ look'[p].fetches = 1
               /\ look'[p].key = NoKey
               /\ look'[p].err # nil
               /\ look'[p].out.id = ""
               /\ look'[p].out.err # nil
               /\ look'[p].out.err[Len(look'[p].out.err)] =
                    KeyNotFound(look[p].kid)[1]]_vars

\* a verification of a token whose key id the endpoint does not publish
\* ended after one fetch that did refill the cache
C20_Witness ==
  \E p \in Procs :
    /\ look[p].pc = "done"
    /\ look[p].fetches = 1
    /\ look[p].err = KeyNotFound(look[p].kid)
    /\ look[p].kid \notin DOMAIN cache
    /\ DOMAIN cache # {}
    /\ look[p].out.id = ""
    /\ look[p].out.err # nil

\* the conditions under which the Apple provider is to accept the call l:
\* the token the exchange returned is signed by the key published under
\* its key id and its claims agree with the credentials and the AuthData
AppleChecksHold(l) ==
  /\ FirstMissing(RequiredFields(ProviderTypeApple), l.data) = ""
  /\ l.exchanges = 1
  /\ l.token # NoToken
  /\ l.token.signer = PublishedKey(l.token.kid)
  /\ l.token.iss = ExpectedIssuer
  /\ l.token.aud = ExpectedAudience
  /\ l.token.nonce = l.data[AppleNonceFieldName]
  /\ l.data[AppleEmailFieldName] \in {"", l.token.email}
  /\ l.data[AppleUserIDFieldName] = l.token.sub

\* C21: Apple Authenticate returns a subject id only if the signature of
\* the exchanged token verifies under the published key for its key id,
\* issuer and audience are the expected ones, the token nonce equals the
\* client's nonce, the client's email is empty or equals the token email
\* and the client's userID equals the token subject; if any one fails it
\* returns an error and a nil result
C21_AppleAcceptsOnlyCheckedTokens ==
  \A p \in Procs :
    look[p].pc = "done" /\ owner = ProviderTypeApple =>
      /\ look[p].out.id # "" =>
           AppleChecksHold(look[p]) /\ look[p].out.id = look[p].token.sub
      /\ ~AppleChecksHold(look[p]) =>
           look[p].out.id = "" /\ look[p].out.err # nil
      /\ look[p].out.id = "" <=> look[p].out.err # nil

\* an Apple call with an email and a token that passes every check returned
\* the token's subject
C21_Witness ==
  \E p \in Procs :
    /\ look[p].pc = "done" /\ owner = ProviderTypeApple
    /\ AppleChecksHold(look[p])
    /\ look[p].data[AppleEmailFieldName] # ""
    /\ look[p].out = [id |-> look[p].token.sub, err |-> nil]

\* C22: Google authentication with a valid authorization code whose
\* exchanged identity token carries a nonce that does not match the
\* client-supplied nonce fails, and no account is created for the token's
\* subject
C22_GoogleNonceMismatchFails ==
  \A p \in Procs :
    /\ call[p].op = "Authenticate"
    /\ call[p].ptype = ProviderTypeGoogle
    /\ look[p].token.nonce # look[p].data["nonce"]
    => /\ call[p].pc = "ret"
       /\ call[p].err # nil
       /\ ~call[p].out

\* C23: the guest provider returns the client-supplied identifier (AuthData
\* key id) as the external subject id; hence guest authentications with
\* two different ids resolve to two different accounts, and two with the
\* same id resolve to the same account
C23_GuestIdIsSubject ==
  /\ \A p \in Procs :
       /\ call[p].op = "Authenticate"
       /\ call[p].ptype = ProviderTypeGuest
       /\ call[p].perr = nil /\ call[p].pc # "ret"
       => call[p].id = look[p].data["id"]
  /\ \A p \in Procs : \A q \in Procs \ {p} :
       /\ call[p].op = "Authenticate" /\ call[q].op = "Authenticate"
       /\ call[p].ptype = ProviderTypeGuest
       /\ call[q].ptype = ProviderTypeGuest
       /\ call[p].pc = "ret" /\ call[q].pc = "ret"
       /\ call[p].out /\ call[q].out
       => (call[p].accountID = call[q].accountID
             <=> look[p].data["id"] = look[q].data["id"])

\* the call l was made with AuthData that lacks a required field
LacksField(l) == FirstMissing(RequiredFields(owner), l.data) # ""

\* C24: if any required AuthData field is absent (Google: token; Apple: any
\* of identityToken, authorizationCode, userID, nonce, email), the
\* provider's Authenticate fails with a missing-required-field error before
\* any outbound request: no token exchange and no certs fetch is performed
\* and the key cache is unchanged
C24_MissingFieldFailsFirst ==
  /\ [](\A p \in Procs :
          look[p].pc # "idle" /\ LacksField(look[p]) =>
            /\ look[p].pc = "done"
            /\ look[p].exchanges = 0
            /\ look[p].fetches = 0
            /\ look[p].out.id = ""
            /\ look[p].out.err =
                 MissingFieldError(owner,
                   FirstMissing(RequiredFields(owner), look[p].data))
            /\ owner = ProviderTypeGoogle =>
                 ErrorsIs(look[p].out.err, ErrMissingRequiredProviderAuthData))
  /\ [][\A p \in Procs :
          look'[p].pc # "idle" /\ LacksField(look[p])' => cache' = cache]_vars

\* an Apple call without the field email failed while the cache held keys
C24_Witness ==
  \E p \in Procs :
    /\ look[p].pc = "done" /\ owner = ProviderTypeApple
    /\ ~Has(look[p].data, AppleEmailFieldName)
    /\ Has(look[p].data, AppleNonceFieldName)
    /\ look[p].out.err = ErrorsNew("missing required field: email")
    /\ look[p].exchanges = 0
    /\ DOMAIN cache # {}

\* C25: if the caller's context is cancelled while a provider's token
\* exchange or certs fetch, or a store resolve or create, is in flight,
\* that operation is aborted and Authenticate eventually returns an error
\* without waiting for the outstanding response
C25_CancelAborts ==
  \A p \in Procs :
    (Cancelled(p) /\ InFlight(p))
      ~> (call[p].pc = "ret" /\ call[p].err # nil)

\* every Get returns the same from cache d as from cache c
SameGets(c, d) ==
  \/ c = d
  \/ \A id \in KeyIDs, t \in Times : cacheGet(d, t, id) = cacheGet(c, t, id)

Begun(k) == manager.hooks[k] \in {"running", "done", "erred", "failed",
                               "panicked"}

\* C27: hooks execute in LIFO order: a hook has begun only if the hook
\* added after it has executed
C27_HooksRunLIFO ==
  \A k \in DOMAIN manager.hooks :
    (k < Len(manager.hooks) /\ Begun(k))
      => manager.hooks[k + 1] \in {"done", "failed"}

\* the errors ResolveIDByProvider returns other than ErrAccountNotFound
ResolutionFailures ==
  {Wrap("failed to query DynamoDB", ErrorsNew("request failed")),
   Wrap("failed to unmarshal DynamoDB items",
        ErrorsNew("unmarshal type error")),
   ErrorsNew("unexpected multiple accounts found")}

\* C28: when ResolveIDByProvider fails with an error other than
\* ErrAccountNotFound, Authenticate returns no output and an error that
\* wraps the resolution error, Create is not invoked and the store is as it
\* was.
C28_ResolveFailureEndsCall ==
  [][\A p \in Procs :
       LET c == call[p]
           d == call'[p] IN
       (/\ c.op = "Authenticate" /\ c.pc = "resolve" /\ d # c
        /\ d.log[Len(d.log)] = <<"Resolve", "error">>)
         => /\ d.pc = "ret" /\ ~d.out /\ d.accountID = c.accountID
            /\ \E e \in ResolutionFailures :
                 d.err = Wrap("failed to resolve account ID", e)
            /\ ~ErrorsIs(d.err, ErrAccountNotFound)
            /\ ~Invoked(d.log, "Create")
            /\ table' = table /\ nextID' = nextID /\ created' = created]_vars

\* an Authenticate has ended on a Query that failed, over a store that
\* holds an account
C28_Witness ==
  \E p \in Procs :
    /\ AtRet(p, "Authenticate") /\ ~call[p].out
    /\ call[p].err = Wrap("failed to resolve account ID",
                          Wrap("failed to query DynamoDB",
                               ErrorsNew("request failed")))
    /\ ~Invoked(call[p].log, "Create")
    /\ table # {}

\* C29: Create returns an error that matches
\* ErrProviderIDOrAccountAlreadyExists if and only if the transaction was
\* cancelled with a failed condition on the identity record or on the
\* account record, whatever the other reason is; a request that failed
\* otherwise gives an error that does not match it.
C29_AlreadyExistsIffConditionFailed ==
  [][\A p \in Procs :
       /\ \A n \in 1..MaxIDs,
             rs \in [1..2 -> {"None", "ConditionalCheckFailed",
                              "TransactionConflict"}] :
            TransactCancelled(p, n, rs) =>
              /\ call'[p].err # nil
              /\ ErrorsIs(call'[p].err, ErrProviderIDOrAccountAlreadyExists)
                   <=> (\E i \in 1..2 : rs[i] = "ConditionalCheckFailed")
       /\ TransactFails(p) =>
            /\ call'[p].err # nil
            /\ ~ErrorsIs(call'[p].err, ErrProviderIDOrAccountAlreadyExists)]_vars

\* the cache after one refill with the endpoint's response at instant t
SingleRefill(t) ==
  AddAll(EmptyCache, CertsKeys, RefillExpiry(owner, CertsExpires, t))

\* C30: verifications that miss the same key id in parallel issue at most
\* one certs fetch each, each of them ends with the published key, and the
\* cache after their refills is the cache after a single refill with the
\* response.
C30_ParallelMissesEndWithKey ==
  /\ \A p \in Procs : look[p].fetches <= 1
  /\ ~Crashed
  /\ \A p \in Procs :
       look[p].pc = "done" =>
         /\ look[p].key = PublishedKey(look[p].kid)
         /\ look[p].err = nil
  /\ cache = EmptyCache \/ \E t \in Times : cache = SingleRefill(t)

\* C31: when the cache holds an unexpired key under the token's key id the
\* verification uses that key and sends no request to the certs endpoint;
\* a request is sent only after the first Get has missed.
C31_HitNeedsNoFetch ==
  [][\A p \in Procs :
       /\ (look[p].pc = "get" /\ look'[p] # look[p]) =>
            LET k == cacheGet(cache, now, look[p].kid) IN
            IF k # NoKey
            THEN /\ look'[p].pc = "done"
                 /\ look'[p].key = k
                 /\ look'[p].err = nil
                 /\ look'[p].fetches = 0
            ELSE look'[p].pc = "fetch" /\ look'[p].fetches = 0
       /\ look'[p].fetches > look[p].fetches =>
            /\ look[p].pc = "fetch"
            /\ look'[p].fetches = 1]_vars

\* a verification has ended on a cached key without a fetch, the key still
\* being in the cache
C31_Witness ==
  \E p \in Procs :
    /\ look[p].pc = "done"
    /\ look[p].fetches = 0
    /\ look[p].err = nil
    /\ look[p].key = PublishedKey(look[p].kid)
    /\ cacheGet(cache, now, look[p].kid) = look[p].key

\* C32: over the whole history and under every interleaving, at most one
\* Authenticate per pair returns IsNew = true and all successful
\* Authenticate calls for a pair return the same AccountID, those that are
\* about to return included.
C32_OneNewPerPair ==
  \A k \in DOMAIN history \cup {KeyOf(call[p]) : p \in Procs} :
    LET h == MapGet(history, k, NoResults)
        ready == {p \in Procs : /\ AtRet(p, "Authenticate") /\ call[p].out
                                /\ KeyOf(call[p]) = k} IN
    /\ h.news + Cardinality({p \in ready : call[p].isNew}) <= 1
    /\ Cardinality(h.ids \cup {call[p].accountID : p \in ready}) <= 1

\* for one pair an Authenticate has returned IsNew = true, and another one
\* that raced with it through Create is about to return its failure
C32_Witness ==
  \E p \in Procs :
    /\ AtRet(p, "Authenticate") /\ ~call[p].out
    /\ Invoked(call[p].log, "Create")
    /\ KeyOf(call[p]) \in DOMAIN history
    /\ history[KeyOf(call[p])].news = 1

\* C33: when Authenticate is about to return successfully with AccountID A
\* for a pair, the table holds the link record of the pair with A, and the
\* call has behind it no Create that was rejected or failed and no
\* resolution that failed.
C33_SuccessHasLink ==
  \A p \in Procs :
    (AtRet(p, "Authenticate") /\ call[p].out) =>
      LET c == call[p] IN
      /\ c.err = nil
      /\ \E it \in LinksOf(c.ptype, c.id) : it.AccountID = c.accountID
      /\ c.log[Len(c.log)] \in {<<"Resolve", "ok">>, <<"Create", "ok">>}
      /\ \A i \in 1..Len(c.log) :
           c.log[i] \notin {<<"Create", "exists">>, <<"Create", "error">>,
                            <<"Resolve", "error">>}

\* one Authenticate is about to return the account it created while
\* another, for the same pair, is about to return the failure of its Create
C33_Witness ==
  \E p \in Procs : \E q \in Procs \ {p} :
    /\ AtRet(p, "Authenticate") /\ call[p].out /\ call[p].isNew
    /\ AtRet(q, "Authenticate") /\ ~call[q].out
    /\ KeyOf(call[q]) = KeyOf(call[p])
    /\ call[q].log[Len(call[q].log)] \in {<<"Create", "exists">>,
                                          <<"Create", "error">>}

\* what Get(id) returns by whole seconds: the key of the most recent Add of
\* id since the last Reset while the current Unix second is smaller than
\* the Unix second of the expiry that Add was given
ExpectedBySeconds(id) ==
  IF /\ id \in DOMAIN added /\ added[id].live
     /\ Unix(now) < Unix(added[id].expiresAt)
  THEN added[id].pubKey ELSE NoKey

\* C34: Get(k) returns the key only while the current Unix second is
\* strictly smaller than the Unix second of expiresAt; at the expiry second
\* itself, and for an expiry within the current second, it returns nil.
C34_ExpiryByWholeSeconds ==
  [][\A id \in KeyIDs :
       CacheGet(id) =>
         /\ got'.key = ExpectedBySeconds(id)
         /\ (id \in DOMAIN added /\ Unix(now) >= Unix(added[id].expiresAt))
              => got'.key = NoKey]_vars

\* a Get has returned nil for a key whose expiry is ahead of the clock but
\* within the current second
C34_Witness ==
  /\ got.id \in DOMAIN added
  /\ got.key = NoKey
  /\ added[got.id].live
  /\ now < added[got.id].expiresAt
  /\ Unix(now) = Unix(added[got.id].expiresAt)

\* C35: the Google provider caches the fetched keys with the expiry of the
\* answer's Expires header.  A header that is missing or does not parse ends
\* the fetch before any Add (cache unchanged) and the verification fails; a
\* header whose instant is not in the future adds the keys already expired,
\* the re-read misses and the verification fails although the key id is
\* published.
C35_ExpiresHeaderRulesCache ==
  [][\A p \in Procs :
       look'[p] # look[p] =>
         /\ (look[p].pc = "fetch" /\ look'[p].err = ExpiresParseError) =>
              /\ cache' = cache
              /\ look'[p].pc = "done"
              /\ look'[p].key = NoKey
              /\ look'[p].out.err # nil
         /\ (look[p].pc = "fetch" /\ look'[p].pc = "reread") =>
              \A keys \in {look'[p].keys}, e \in HeaderTimes :
                Refill(p, keys, e) =>
                  \A id \in keys :
                    /\ id \in DOMAIN cache'
                    /\ cache'[id].expiresAt = Unix(e)
                    /\ e <= now => cacheGet(cache', now, id) = NoKey
         /\ ( /\ look[p].pc = "reread" /\ look'[p].pc = "done"
              /\ look[p].kid \in look[p].keys
              /\ added[look[p].kid].expiresAt <= now ) =>
              /\ look'[p].key = NoKey
              /\ look'[p].err = KeyNotFound(look[p].kid)
              /\ look'[p].out.err # nil]_vars

\* one verification has failed on the Expires header, another on the re-read
\* of a key id that the answer published with an expiry not in the future
C35_Witness ==
  \E p \in Procs : \E q \in Procs \ {p} :
    /\ look[p].pc = "done" /\ look[p].err = ExpiresParseError
    /\ look[p].out.err # nil
    /\ look[q].pc = "done" /\ look[q].err = KeyNotFound(look[q].kid)
    /\ look[q].out.err # nil
    /\ look[q].kid \in DOMAIN cache
    /\ look[q].kid \in DOMAIN added
    /\ added[look[q].kid].expiresAt <= now

\* the entry of a JWKS answer cannot be converted to an RSA key
BadJWK(jwk) ==
  \/ jwk.kty # "RSA"
  \/ jwk.n \in {BadLengthText, BadCharText}
  \/ jwk.e \in {BadLengthText, BadCharText}

\* the position of the first bad entry of jwks, Len(jwks) + 1 without one
FirstBad(jwks) ==
  IF \E i \in DOMAIN jwks : BadJWK(jwks[i])
  THEN CHOOSE i \in DOMAIN jwks :
         BadJWK(jwks[i]) /\ \A j \in 1..(i - 1) : ~BadJWK(jwks[j])
  ELSE Len(jwks) + 1

\* C36: when an entry of the JWKS answer cannot be converted (key type not
\* RSA, modulus or exponent undecodable) the Apple refill stops with an
\* error and the verification fails, even when the entry of the requested
\* key id is valid; the entries before the bad one are cached with a lease
\* of one hour and the entries after it are not cached.
C36_BadJWKStopsRefill ==
  [][\A p \in Procs :
       LET jwks == look'[p].jwks
           bad == FirstBad(jwks)
           before == {jwks[j].kid : j \in 1..(bad - 1)} IN
       ( /\ look[p].pc = "fetch" /\ look'[p] # look[p]
         /\ look'[p].err # FetchError(ProviderTypeApple)
         /\ bad <= Len(jwks) ) =>
         /\ look'[p].pc = "done"
         /\ look'[p].key = NoKey
         /\ look'[p].err # nil
         /\ look'[p].out.err # nil
         /\ \A id \in before :
              /\ id \in DOMAIN cache'
              /\ cache'[id].pubKey = PublishedKey(id)
              /\ cache'[id].expiresAt = Unix(now + AppleLease)
              /\ cacheGet(cache', now, id) = PublishedKey(id)
         /\ \A id \in KeyIDs \ before :
              /\ id \in DOMAIN cache' <=> id \in DOMAIN cache
              /\ id \in DOMAIN cache => cache'[id] = cache[id]]_vars

\* a verification of kid2 has failed on the answer (kid1, a bad entry, kid2):
\* kid1 is cached, kid2 is not
C36_Witness ==
  \E p \in Procs :
    /\ look[p].pc = "done"
    /\ look[p].kid = "kid2"
    /\ look[p].fetches = 1
    /\ Len(look[p].jwks) = 3
    /\ look[p].jwks[1] = RSAKey("kid1")
    /\ BadJWK(look[p].jwks[2])
    /\ look[p].jwks[3] = RSAKey("kid2")
    /\ look[p].err # nil
    /\ look[p].out.err # nil
    /\ cacheGet(cache, now, "kid1") = PublishedKey("kid1")
    /\ "kid2" \notin DOMAIN cache

\* C37: Check returns only after every goroutine it started has finished;
\* the response has exactly one entry per check that was registered when
\* the call copied the checks, whatever AddCheck and RemoveCheck did since,
\* and its status is unhealthy if and only if a check returned an error.
C37_CheckWaitsForAll ==
  health.pc = "returned" =>
    /\ \A n \in DOMAIN health.g : health.g[n].pc = "done"
    /\ DOMAIN health.g = DOMAIN health.snapshot
    /\ DOMAIN health.response.checks = DOMAIN health.snapshot
    /\ \A n \in DOMAIN health.response.checks :
         health.response.checks[n] = StatusUnhealthy
           <=> health.g[n].err # nil
    /\ health.response.status \in {StatusHealthy, StatusUnhealthy}
    /\ health.response.status = StatusUnhealthy
         <=> \E n \in DOMAIN health.g : health.g[n].err # nil

\* a Check of two checks has returned unhealthy, one check having failed
\* and one not, after a RemoveCheck took one of them off the Checker
C37_Witness ==
  /\ health.pc = "returned"
  /\ DOMAIN health.snapshot = CheckNames
  /\ DOMAIN health.checks # CheckNames
  /\ health.response.status = StatusUnhealthy
  /\ \E n \in CheckNames : health.response.checks[n] = StatusHealthy
  /\ \E n \in CheckNames : health.response.checks[n] = StatusUnhealthy

\* the process has ended
Terminated == manager.pc \in {"exited", "panicked"}

\* once shutdown has started the process ends, whatever the hooks do
ShutdownTerminates == (manager.pc = "spawn") ~> Terminated

\* every hook is started exactly once: after the loop no hook is left
\* without its goroutine, and no goroutine is started a second time
HooksStartedOnce ==
  [][/\ manager'.pc \notin {"wait", "spawn"} =>
          \A k \in DOMAIN manager'.hooks : manager'.hooks[k] # "added"
     /\ \A k \in DOMAIN manager.hooks :
          manager'.hooks[k] = "spawned" /\ manager.hooks[k] # "spawned"
            => manager.hooks[k] = "added"]_vars

\* C38: once shutdown has started every hook has been started when the
\* wait begins, and the process ends with exit code 1 if a hook's error was
\* collected and with 0 otherwise.
C38_ExitCodeFromCollectedErrors ==
  /\ manager.pc \notin {"wait", "spawn"} =>
       \A k \in DOMAIN manager.hooks : manager.hooks[k] # "added"
  /\ Terminated =>
       manager.code = IF \E k \in DOMAIN manager.hooks :
                            manager.hooks[k] = "failed"
                      THEN 1 ELSE 0

\* C39: no goroutine of a hook sends on the channel of errors after
\* close(errors): every send happens while the channel is open.
C39_NoSendAfterClose ==
  [][\A k \in DOMAIN manager.hooks :
       (manager.hooks[k] = "erred" /\ manager'.hooks[k] # "erred")
         => ~Closed]_vars

====
